---- MODULE Spec2Model ----
(***************************************************************************)
(* A state-machine model of the synthetic sales-data generation pipeline   *)
(* (src/sales/generators/*.py).  Every stage is a straight-line function   *)
(* of the source; the model follows its loops step by step.  `pc` is the   *)
(* position inside the stage that is running, the cache and the tables of  *)
(* the persistent store are variables, and every random draw of the code   *)
(* is a nondeterministic choice from a small pool.                         *)
(***************************************************************************)
EXTENDS Integers, Sequences, FiniteSets, TLC

VARIABLES
    pc,               \* position in the running stage
    attempts,         \* the local retry counter `attempts` of the running loop
    territories,      \* cache['territories']: working key -> territory record
    products,         \* cache['products'], as a list in key order
    \* ---- HR stage (generators/hr.py)
    cfg_employees,    \* config.employees
    employees,        \* the list `employees` (the dicts are shared with the cache)
    employee_id,      \* the working-key counter `employee_id`
    used_emails,      \* the set `used_emails`
    region_idx,       \* index of the region the manager loop is at
    region_done,      \* managers created so far for that region
    remaining_slots,  \* `remaining_slots`, fixed when the staff loop starts
    staff_iter,       \* iterations of the staff loop already run
    db_employees,     \* rows of table employees, in insertion order
    seq_employees,    \* next value of employees_employee_id_seq
    \* ---- geographic stage (generators/geographic.py)
    cfg_countries,    \* config.countries
    cfg_territories,  \* config.territories
    country_idx,      \* position of the country loop in cache['countries']
    num_territories,  \* `num_territories` of the country being filled
    names_done,       \* iterations of the per-country territory loop already run
    used_names,       \* the set `used_names` of the country being filled
    territories_insert, \* the list `territories_insert`
    db_territories,   \* rows of table territories, in insertion order
    seq_territories,  \* next value of territories_territory_id_seq
    \* ---- supplier stage (generators/supplier.py, generate_supplier_data)
    cfg_suppliers,    \* config.suppliers
    suppliers,        \* the list `suppliers` (the dicts are shared with the cache)
    supplier_id,      \* the working-key counter `supplier_id`
    used_company_names, \* the set `used_company_names`
    db_suppliers,     \* rows of table suppliers
    seq_suppliers,    \* next value of suppliers_supplier_id_seq
    product_idx,      \* position of the loop over products_with_real_ids
    product_suppliers, \* the list `product_suppliers`
    db_product_suppliers, \* rows of table product_suppliers
    \* ---- purchase orders (generators/supplier.py, generate_purchase_orders)
    cfg_purchase_orders, \* config.purchase_orders
    po_num,           \* the loop variable `po_num`
    purchase_orders,  \* the list `purchase_orders`
    po_details,       \* the list `po_details`
    po_line_costs,    \* the list `po_line_costs`
    used_po_numbers,  \* the set `used_po_numbers`
    db_purchase_orders,           \* rows of table purchase_orders
    db_purchase_order_details,    \* rows of table purchase_order_details
    db_purchase_order_line_costs, \* rows of table purchase_order_line_costs
    \* ---- product stage, products part (generators/product.py)
    cfg_products,     \* config.products
    product_id,       \* the working-key counter `product_id`
    used_skus,        \* the set `used_skus`
    db_products,      \* rows of table products
    seq_products,     \* next value of products_product_id_seq
    \* ---- customer stage (generators/customer.py)
    cfg_customers,    \* config.customers
    customer_id,      \* the loop variable `customer_id`
    customers,        \* the list `customers`
    used_customer_names, \* the set `used_customer_names`
    customer_used_emails, \* the set `used_emails` of the customer stage
    company_name,     \* the name chosen for the customer being built
    db_customers,     \* rows of table customers
    seq_customers,    \* next value of customers_customer_id_seq
    customer_addresses,    \* the list `customer_addresses`
    db_addresses,          \* the address_id column of table addresses
    db_customer_addresses, \* rows of table customer_addresses
    \* ---- sales stage (generators/sales.py)
    cfg_sales_orders, \* config.sales_orders
    today,            \* date.today(), as a day number
    order_num,        \* the loop variable `order_num`
    order_date,       \* `order_date` of the candidate order, as a day number
    seasonal_multiplier, \* `seasonal_multiplier`, in hundredths
    orders,           \* the list `orders`
    db_orders,        \* rows of table orders
    \* ---- product stage, categories part (generators/product.py)
    cfg_product_categories, \* config.product_categories
    categories,       \* the list `categories`
    root_idx,         \* position of the loop over root_categories
    num_subcats,      \* bound of the sub-category loop of the current root
    sub_i,            \* the loop variable `i`
    used_subcat_names,    \* the set `used_subcat_names`
    num_subsubcats,   \* bound of the sub-sub-category loop of the current sub
    subsub_j,         \* the loop variable `j`
    used_subsubcat_names, \* the set `used_subsubcat_names`
    remaining_categories, \* the list `remaining_categories`, as positions in categories
    inserted_categories,  \* the list `inserted_categories`, as positions in categories
    level,            \* the loop variable `level`
    db_product_categories, \* rows of table product_categories
    seq_categories,   \* next value of product_categories_category_id_seq
    \* ---- currency stage, exchange rates (generators/currency.py)
    cfg_days,         \* number of days from start_date - 365 through end_date
    current_date,     \* `current_date`, as the day's number in that range
    pair_idx,         \* position of the loop over base_rates.items()
    current_rates,    \* `current_rates`, by position in base_rates
    exchange_rates,   \* the buffer `exchange_rates`
    db_exchange_rates,\* rows of table exchange_rates
    \* ---- inventory stage (generators/inventory.py)
    inv_t,            \* position of the loop over territories_with_ids
    territory_products, \* what is left of the sample `territory_products`
    inventory_records,  \* the list `inventory_records`
    db_inventory,     \* rows of table inventory
    db_sales_targets, \* rows of table sales_targets
    \* ---- reference data (init_database.py populate_reference_data)
    db_reference,     \* the tables currencies, countries, tax_types, cost_types, roles
    ref_runs,         \* completed runs of populate_reference_data
    ref_first,        \* the tables as the first run left them
    \* ---- a run: main and generate_all_data (generate_data.py)
    tables_to_generate, \* the --only list, <<>> for None
    clear_existing,   \* --clear-existing
    conn,             \* TRUE while the connection is open
    generators,       \* the list `generators`
    stage_idx,        \* position of the loop over `generators`
    op_idx,           \* position inside the running stage
    executed,         \* the stages called so far, in call order
    cached,           \* the kinds of entity the cache holds with real ids
    pending,          \* <<stage, table>> written and not yet committed
    committed,        \* <<stage, table>> persisted
    raised,           \* the stage that raised, "none" if none did
    raise_cause,      \* why it raised
    kept,             \* what was persisted when the stage raised
    validated,        \* what validate_data_integrity reported
    result,           \* what generate_all_data returned
    cancelled,        \* how the user cancelled, "none" if they did not
    exit_code         \* the exit code of main, -1 while it runs

hrVars == <<cfg_employees, employees, employee_id, used_emails, region_idx,
            region_done, remaining_slots, staff_iter, db_employees, seq_employees>>

geoVars == <<cfg_countries, cfg_territories, country_idx, num_territories,
             names_done, used_names, territories_insert, db_territories,
             seq_territories>>

supVars == <<cfg_suppliers, suppliers, supplier_id, used_company_names,
             db_suppliers, seq_suppliers, product_idx,
             product_suppliers, db_product_suppliers>>

poVars == <<cfg_purchase_orders, po_num, purchase_orders, po_details,
            po_line_costs, used_po_numbers, db_purchase_orders,
            db_purchase_order_details, db_purchase_order_line_costs>>

prodVars == <<cfg_products, product_id, used_skus, db_products, seq_products>>

custVars == <<cfg_customers, customer_id, customers, used_customer_names,
              customer_used_emails, company_name, db_customers, seq_customers,
              customer_addresses, db_addresses, db_customer_addresses>>

salVars == <<cfg_sales_orders, today, order_num, order_date, seasonal_multiplier,
             orders, db_orders>>

catVars == <<cfg_product_categories, categories, root_idx, num_subcats, sub_i,
             used_subcat_names, num_subsubcats, subsub_j, used_subsubcat_names,
             remaining_categories, inserted_categories, level,
             db_product_categories, seq_categories>>

invVars == <<inv_t, territory_products, inventory_records, db_inventory,
             db_sales_targets>>

refVars == <<db_reference, ref_runs, ref_first>>

runVars == <<tables_to_generate, clear_existing, conn, generators, stage_idx,
             op_idx, executed, cached, pending, committed, raised, raise_cause,
             kept, validated, result, cancelled, exit_code>>

fxVars == <<cfg_days, current_date, pair_idx, current_rates, exchange_rates,
            db_exchange_rates>>

nonHRVars == <<products, geoVars, supVars, poVars, prodVars, custVars, catVars, salVars,
               fxVars,
    invVars, refVars, runVars>>
nonGeoVars == <<products, hrVars, supVars, poVars, prodVars, custVars, catVars, salVars,
                fxVars,
    invVars, refVars, runVars>>
nonSupVars == <<hrVars, geoVars, poVars, prodVars, custVars, catVars, salVars, fxVars,
    invVars, refVars, runVars>>
nonPOVars == <<products, hrVars, geoVars, supVars, prodVars, custVars, catVars, salVars,
               fxVars,
    invVars, refVars, runVars>>
nonProdVars == <<hrVars, geoVars, supVars, poVars, custVars, catVars, salVars, fxVars,
    invVars, refVars, runVars>>
nonCustVars == <<products, hrVars, geoVars, supVars, poVars, prodVars, catVars, salVars,
                 fxVars,
    invVars, refVars, runVars>>
nonCatVars == <<territories, products, hrVars, geoVars, supVars, poVars, prodVars,
                custVars, salVars, fxVars,
    invVars, refVars, runVars>>
nonFxVars == <<attempts, territories, products, hrVars, geoVars, supVars, poVars,
               prodVars, custVars, catVars, salVars,
    invVars, refVars, runVars>>

vars == <<pc, attempts, territories, products, hrVars, geoVars, supVars, poVars,
          prodVars, custVars, catVars, salVars, fxVars,
    invVars, refVars, runVars>>

(***************************************************************************)
(* Bounds of the model.                                                    *)
(***************************************************************************)
MaxEmployees == 4     \* largest config.employees explored
MaxTerr == 2          \* largest number of territories in the cache
FakerPool == 2        \* number of distinct values a faker call can return
MaxSeqOffset == 1     \* a store sequence starts at 1 .. 1 + MaxSeqOffset
MaxCountries == 2     \* largest config.countries explored
MaxTerritoryBudget == 3  \* largest config.territories explored
MaxSuppliers == 2     \* largest number of suppliers explored
MaxProducts == 2      \* largest number of products explored
MaxPurchaseOrders == 2  \* largest config.purchase_orders explored
MaxLines == 2         \* largest draw of num_lines explored
MaxCustomers == 2     \* largest config.customers explored
MaxCategories == 5    \* largest config.product_categories explored
MaxDays == 3          \* largest number of days of the exchange-rate walk explored
\* currency.py 127: len(exchange_rates) >= 10000.  The walk explored makes
\* 2 * Len(base_rates) rows a day for MaxDays days; the threshold is scaled
\* to that size so that a buffer fills at the end of some days and not of
\* others.
flush_threshold == 6
MaxRefRows == 2       \* rows of each reference data list explored
MaxRefRuns == 3       \* runs of populate_reference_data explored
MaxOnly == 2          \* longest --only list explored
MaxSalesOrders == 2   \* largest config.sales_orders explored

(***************************************************************************)
(* Values shared by the stages.                                            *)
(***************************************************************************)
NULL == 0                       \* Python None / SQL NULL / an absent dict key
max_attempts == 10              \* retry budget of the unique-key loops

Max(a, b) == IF a >= b THEN a ELSE b
Min(a, b) == IF a <= b THEN a ELSE b
Range(s) == {s[i] : i \in DOMAIN s}

\* The values a faker call may return.
Pool == 1 .. FakerPool

\* Starting values of a store sequence (a serial column).
SeqStarts == 1 .. (1 + MaxSeqOffset)

(***************************************************************************)
(* country_data: its leading rows.  cache['countries'] holds the first     *)
(* config.countries of them, keyed by code, in this order.                 *)
(***************************************************************************)
country_data ==
    << [name |-> "United States", code |-> "USA", region |-> "North America", currency |-> "USD"],
       [name |-> "Canada", code |-> "CAN", region |-> "North America", currency |-> "CAD"],
       [name |-> "Mexico", code |-> "MEX", region |-> "North America", currency |-> "USD"],
       [name |-> "United Kingdom", code |-> "GBR", region |-> "Europe", currency |-> "GBP"] >>

country_region(code) ==
    country_data[CHOOSE i \in DOMAIN country_data : country_data[i].code = code].region

\* Countries the territories of an initial cache may lie in.
CacheCountries == <<"USA", "GBR">>

\* The caches the geographic stage can leave behind: territories keyed
\* 1..n in country order, each resolved to the id the store assigned.
TerritoryCaches ==
    UNION { { [k \in 1 .. n |->
                 [id |-> k + off,
                  country_code |-> IF k <= split THEN CacheCountries[1]
                                                 ELSE CacheCountries[2]]]
              : split \in 0 .. n, off \in 0 .. MaxSeqOffset }
            : n \in 1 .. MaxTerr }

\* The caches that hold a single territory.
OneTerritoryCaches == {tc \in TerritoryCaches : Len(tc) = 1}

TerritoryKeys == DOMAIN territories

(***************************************************************************)
(* HR stage: generate_hr_data                                              *)
(***************************************************************************)
\* An email address is <<local part, number in the local part>>; the domain,
\* a further random draw, is left out of the key.
\* faker.email(): an address from the pool, its local part a person's name.
RandomEmail(e) == <<"faker", e>>
\* f"manager{employee_id}@{faker.domain_name()}"
ManagerFallbackEmail(id) == <<"manager", id>>
\* f"employee{employee_id}@{faker.domain_name()}"
EmployeeFallbackEmail(id) == <<"employee", id>>

managers == SelectSeq(employees, LAMBDA e : e.role = "manager")

\* config.start_date, the day dates are counted from
start_date == 0

\* The ends of a random.randint(lo, hi).
EndsOf(lo, hi) == {lo, hi}

\* hr.py 204: timedelta(days=random.randint(0, 1000))
StaffHireDays == EndsOf(0, 1000)

TerritoryRegion(t) == country_region(t.country_code)

\* territories_by_region: its keys in insertion order, and its lists.
RECURSIVE RegionOrderFrom(_)
RegionOrderFrom(k) ==
    IF k \notin TerritoryKeys THEN <<>>
    ELSE LET rest == RegionOrderFrom(k + 1)
             r == TerritoryRegion(territories[k])
         IN  IF territories[k].id = NULL THEN rest
             ELSE <<r>> \o SelectSeq(rest, LAMBDA x : x # r)

region_order == RegionOrderFrom(1)

region_territories(r) ==
    {k \in TerritoryKeys : territories[k].id # NULL
                           /\ TerritoryRegion(territories[k]) = r}

num_managers(r) == Max(1, Cardinality(region_territories(r)) \div 5)

ManagersWanted(r) == Min(num_managers(r), Cardinality(region_territories(r)))

\* The membership test of the unique-key loops (`key not in used`).
KeyIsFreeNoCheck(key, used) == TRUE
KeyIsFree(key, used) == key \notin used

EmailIsFree(email) == KeyIsFree(email, used_emails)

\* The state the stage is entered in.
HREntry ==
    /\ pc = "hr_ceo"
    /\ attempts = 0
    /\ territories \in TerritoryCaches
    /\ cfg_employees \in 1 .. MaxEmployees
    /\ employees = <<>>
    /\ employee_id = 1
    /\ used_emails = {}
    /\ region_idx = 1
    /\ region_done = 0
    /\ remaining_slots = 0
    /\ staff_iter = 0
    /\ db_employees = <<>>
    /\ seq_employees \in SeqStarts

\* hr.py 58-79: the CEO, in a random territory, with manager_id None.
CreateCEO ==
    /\ pc = "hr_ceo"
    /\ \E k \in TerritoryKeys, e \in Pool, days \in EndsOf(1000, 2000) :
         LET ceo == [id |-> employee_id, role |-> "ceo",
                     email |-> RandomEmail(e),
                     territory_id |-> territories[k].id,
                     manager_id |-> NULL, real_id |-> NULL,
                     hire_date |-> start_date - days]
         IN  /\ employees' = Append(employees, ceo)
             /\ used_emails' = used_emails \cup {ceo.email}
    /\ employee_id' = employee_id + 1
    /\ pc' = IF region_order = <<>> THEN "hr_staff" ELSE "hr_managers"
    /\ remaining_slots' = cfg_employees - Len(employees')
    /\ UNCHANGED <<attempts, territories, cfg_employees, region_idx, region_done,
                   staff_iter, db_employees, seq_employees, nonHRVars>>

\* hr.py 107-112: one pass of the manager's unique-email loop that collides.
ManagerEmailCollides ==
    /\ pc = "hr_managers"
    /\ attempts < max_attempts
    /\ \E e \in Pool : ~EmailIsFree(RandomEmail(e))
    /\ attempts' = attempts + 1
    /\ UNCHANGED <<pc, territories, hrVars, nonHRVars>>

\* Where the manager loops stand after one more manager: hr.py 100, 134-138.
\* Leaving them fixes remaining_slots (hr.py 141).
AfterManager(next_id) ==
    LET r == region_order[region_idx]
        budget_hit == next_id > cfg_employees
        region_over == region_done + 1 >= ManagersWanted(r)
        last_region == region_idx = Len(region_order)
    IN  [pc |-> IF budget_hit \/ (region_over /\ last_region)
                THEN "hr_staff" ELSE "hr_managers",
         region_idx |-> IF ~budget_hit /\ region_over /\ ~last_region
                        THEN region_idx + 1 ELSE region_idx,
         region_done |-> IF budget_hit THEN region_done + 1
                         ELSE IF region_over THEN 0 ELSE region_done + 1]

\* hr.py 101-132: a regional manager, reporting to the CEO's working key.
CreateManager ==
    /\ pc = "hr_managers"
    /\ \E k \in region_territories(region_order[region_idx]), e \in Pool,
          days \in EndsOf(30, 365) :
         LET email == IF attempts < max_attempts
                      THEN RandomEmail(e)
                      ELSE ManagerFallbackEmail(employee_id)
             manager == [id |-> employee_id, role |-> "manager",
                         email |-> email,
                         territory_id |-> territories[k].id,
                         manager_id |-> employees[1].id, real_id |-> NULL,
                         hire_date |-> employees[1].hire_date + days]
         IN  /\ attempts < max_attempts => EmailIsFree(email)
             /\ employees' = Append(employees, manager)
             /\ used_emails' = used_emails \cup {email}
    /\ employee_id' = employee_id + 1
    /\ LET after == AfterManager(employee_id + 1)
       IN  /\ pc' = after.pc
           /\ region_idx' = after.region_idx
           /\ region_done' = after.region_done
    /\ attempts' = 0
    /\ remaining_slots' = cfg_employees - Len(employees')
    /\ UNCHANGED <<territories, cfg_employees, staff_iter, db_employees,
                   seq_employees, nonHRVars>>

\* hr.py 153-154: the managers whose territory_id, used as a key of
\* cache['territories'], leads to a country of the region.
region_managers(region) ==
    SelectSeq(managers,
              LAMBDA m : /\ m.territory_id \in TerritoryKeys
                         /\ TerritoryRegion(territories[m.territory_id]) = region)

\* hr.py 156: the candidates random.choice picks the staff's manager from.
ManagerCandidates(region) ==
    IF region_managers(region) # <<>> THEN Range(region_managers(region))
    ELSE IF managers # <<>> THEN Range(managers)
    ELSE {employees[1]}

\* hr.py 185-190: one pass of the staff's unique-email loop that collides.
StaffEmailCollides ==
    /\ pc = "hr_staff"
    /\ staff_iter < remaining_slots
    /\ attempts < max_attempts
    /\ \E e \in Pool : ~EmailIsFree(RandomEmail(e))
    /\ attempts' = attempts + 1
    /\ UNCHANGED <<pc, territories, hrVars, nonHRVars>>

\* hr.py 145-209: one staff employee, reporting to a manager's working key.
CreateStaff ==
    /\ pc = "hr_staff"
    /\ staff_iter < remaining_slots
    /\ \E k \in TerritoryKeys, e \in Pool, days \in StaffHireDays :
         /\ territories[k].id # NULL
         /\ \E manager \in ManagerCandidates(TerritoryRegion(territories[k])) :
              LET email == IF attempts < max_attempts
                           THEN RandomEmail(e)
                           ELSE EmployeeFallbackEmail(employee_id)
                  employee == [id |-> employee_id, role |-> "staff",
                               email |-> email,
                               territory_id |-> territories[k].id,
                               manager_id |-> manager.id, real_id |-> NULL,
                               hire_date |-> employees[1].hire_date + days]
              IN  /\ attempts < max_attempts => EmailIsFree(email)
                  /\ employees' = Append(employees, employee)
                  /\ used_emails' = used_emails \cup {email}
    /\ employee_id' = employee_id + 1
    /\ staff_iter' = staff_iter + 1
    /\ attempts' = 0
    /\ UNCHANGED <<pc, territories, cfg_employees, region_idx, region_done,
                   remaining_slots, db_employees, seq_employees, nonHRVars>>

(***************************************************************************)
(* The store: INSERT gives every row the next value of the table's         *)
(* sequence; SELECT id, key builds a dict, so a key maps to the id of the  *)
(* last row that carries it.                                               *)
(***************************************************************************)
RECURSIVE InsertRows(_, _, _)
InsertRows(table, rows, seq) ==
    IF rows = <<>> THEN table
    ELSE InsertRows(Append(table, [Head(rows) EXCEPT !.real_id = seq]),
                    Tail(rows), seq + 1)

\* {email: emp_id for emp_id, email in cursor.fetchall()}.get(email)
EmailToId(table, email) ==
    LET hits == {i \in DOMAIN table : table[i].email = email}
    IN  IF hits = {} THEN NULL
        ELSE table[CHOOSE i \in hits : \A j \in hits : j <= i].real_id

\* SELECT employee_id FROM employees WHERE email = %s; fetchone()[0]
FirstIdWithEmail(table, email) ==
    LET hits == {i \in DOMAIN table : table[i].email = email}
    IN  table[CHOOSE i \in hits : \A j \in hits : i <= j].real_id

\* The row an employee dict is inserted as.
EmployeeRow(e) == [email |-> e.email, manager_id |-> e.manager_id,
                   role |-> e.role, territory_id |-> e.territory_id,
                   hire_date |-> e.hire_date, real_id |-> NULL]

Rows(list) == [i \in DOMAIN list |-> EmployeeRow(list[i])]

\* hr.py 231-233: what a manager's manager_id becomes once the CEO's id is known.
ManagerRefUnset(m, ceo_real_id) == employees[1].real_id
ManagerRef(m, ceo_real_id) == ceo_real_id

\* hr.py 213-233: insert the CEO, read its id back, point the managers at it.
InsertCEO ==
    /\ pc = "hr_staff"
    /\ staff_iter >= remaining_slots
    /\ LET table == InsertRows(db_employees, Rows(<<employees[1]>>), seq_employees)
           ceo_real_id == FirstIdWithEmail(table, employees[1].email)
       IN  /\ db_employees' = table
           /\ employees' =
                [i \in DOMAIN employees |->
                    IF i = 1 THEN [employees[i] EXCEPT !.real_id = ceo_real_id]
                    ELSE IF employees[i].role = "manager"
                    THEN [employees[i] EXCEPT
                             !.manager_id = ManagerRef(employees[i], ceo_real_id)]
                    ELSE employees[i]]
    /\ seq_employees' = seq_employees + 1
    /\ pc' = "hr_insert_managers"
    /\ UNCHANGED <<attempts, territories, cfg_employees, employee_id, used_emails,
                   region_idx, region_done, remaining_slots, staff_iter, nonHRVars>>

\* hr.py 235-259: insert the managers, resolve their ids by email.
InsertManagers ==
    /\ pc = "hr_insert_managers"
    /\ LET table == InsertRows(db_employees, Rows(managers), seq_employees)
       IN  /\ db_employees' = table
           /\ employees' =
                [i \in DOMAIN employees |->
                    IF employees[i].role = "manager"
                    THEN [employees[i] EXCEPT
                             !.real_id = EmailToId(table, employees[i].email)]
                    ELSE employees[i]]
    /\ seq_employees' = seq_employees + Len(managers)
    /\ pc' = "hr_insert_staff"
    /\ UNCHANGED <<attempts, territories, cfg_employees, employee_id, used_emails,
                   region_idx, region_done, remaining_slots, staff_iter, nonHRVars>>

\* hr.py 263-269: the staff's manager_id, rewritten to the real id of the
\* manager whose working key it holds, when that manager has one.
StaffRefWorkingKey(emp) == emp.manager_id
StaffRef(emp) ==
    LET hits == {i \in DOMAIN managers :
                    managers[i].id = emp.manager_id /\ managers[i].real_id # NULL}
    IN  IF hits = {} THEN emp.manager_id
        ELSE managers[CHOOSE i \in hits : \A j \in hits : i <= j].real_id

other_employees == SelectSeq(employees, LAMBDA e : e.role = "staff")

\* hr.py 261-284: rewrite the staff's manager references, insert the staff.
InsertStaff ==
    /\ pc = "hr_insert_staff"
    /\ LET updated == [i \in DOMAIN employees |->
                          IF employees[i].role = "staff"
                          THEN [employees[i] EXCEPT !.manager_id = StaffRef(employees[i])]
                          ELSE employees[i]]
           staff == SelectSeq(updated, LAMBDA e : e.role = "staff")
       IN  /\ employees' = updated
           /\ db_employees' = InsertRows(db_employees, Rows(staff), seq_employees)
           /\ seq_employees' = seq_employees + Len(staff)
    /\ pc' = "hr_resolve"
    /\ UNCHANGED <<attempts, territories, cfg_employees, employee_id, used_emails,
                   region_idx, region_done, remaining_slots, staff_iter, nonHRVars>>

\* hr.py 286-295: read every id back by email, commit.
FinishHR ==
    /\ pc = "hr_resolve"
    /\ employees' = [i \in DOMAIN employees |->
                        [employees[i] EXCEPT
                            !.real_id = EmailToId(db_employees, employees[i].email)]]
    /\ pc' = "hr_done"
    /\ UNCHANGED <<attempts, territories, cfg_employees, employee_id, used_emails,
                   region_idx, region_done, remaining_slots, staff_iter,
                   db_employees, seq_employees, nonHRVars>>

HRNext ==
    \/ CreateCEO
    \/ ManagerEmailCollides
    \/ CreateManager
    \/ StaffEmailCollides
    \/ CreateStaff
    \/ InsertCEO
    \/ InsertManagers
    \/ InsertStaff
    \/ FinishHR

\* The stage at rest: what another stage's run leaves these variables at.
HRLocalsIdle ==
    /\ cfg_employees = 0
    /\ employee_id = 1
    /\ used_emails = {}
    /\ region_idx = 1
    /\ region_done = 0
    /\ remaining_slots = 0
    /\ staff_iter = 0
    /\ db_employees = <<>>
    /\ seq_employees = 1

HRIdle == employees = <<>> /\ HRLocalsIdle

(***************************************************************************)
(* Geographic stage: generate_geographic_data, territories part            *)
(* (geographic.py 98-189).                                                 *)
(*                                                                         *)
(* A territory name is a string; it is kept as the tuple of its parts      *)
(* <<place, suffix, number>>, so that two names are equal exactly when the *)
(* strings are: "" is an absent suffix, 0 an absent number.                *)
(***************************************************************************)
\* geographic.py 142: two of the six suffixes, the fallback's word among them
suffixes == {"Region", "Territory"}

\* geographic.py 138: self._safe_state(faker)
StateName(x) == <<x, "", 0>>

\* geographic.py 141-143: f"{base_name} {random.choice(suffixes)}"
CitySuffixName(x, suffix) == <<x, suffix, 0>>

\* geographic.py 151: f"{faker.city()} Territory {len(used_names) + 1}"
FallbackName(x, used) == <<x, "Territory", Cardinality(used) + 1>>

RandomNames ==
    {StateName(x) : x \in Pool} \cup
    {CitySuffixName(x, sfx) : x \in Pool, sfx \in suffixes}

\* geographic.py 110-117: random.randint range by region
TerritoryDraws(region) ==
    CASE region = "North America" -> 8 .. 15
      [] region = "Europe" -> 5 .. 12
      [] region = "Asia" -> 3 .. 10
      [] OTHER -> 2 .. 8

\* cache['countries'][code]['id']: ids follow the insertion order of country_data
country_id(i) == i

\* geographic.py 126: max_attempts = num_territories * 3
name_max_attempts == num_territories * 3

\* geographic.py 146: territory_name not in used_names
NameIsFreeNoCheck(name) == TRUE
NameIsFree(name) == name \notin used_names

GeoIdle ==
    /\ cfg_countries = 0
    /\ cfg_territories = 0
    /\ country_idx = 1
    /\ num_territories = 0
    /\ names_done = 0
    /\ used_names = {}
    /\ territories_insert = <<>>
    /\ db_territories = <<>>
    /\ seq_territories = 1

GeoEntry ==
    /\ pc = "geo_country"
    /\ attempts = 0
    /\ territories = <<>>
    /\ cfg_countries \in 1 .. MaxCountries
    /\ cfg_territories \in 1 .. MaxTerritoryBudget
    /\ country_idx = 1
    /\ num_territories = 0
    /\ names_done = 0
    /\ used_names = {}
    /\ territories_insert = <<>>
    /\ db_territories = <<>>
    /\ seq_territories \in SeqStarts

\* Where control goes when the loop over one country's territories is left
\* with budget remaining: the next country, or past the last one.
LeaveCountry ==
    /\ country_idx' = country_idx + 1
    /\ pc' = IF country_idx + 1 > cfg_countries THEN "geo_insert" ELSE "geo_country"

\* geographic.py 102-126: enter a country, draw and clip its territory count.
GeoStartCountry ==
    /\ pc = "geo_country"
    /\ country_idx <= cfg_countries
    /\ \E draw \in TerritoryDraws(country_data[country_idx].region) :
          num_territories' =
              IF Len(territories_insert) + draw > cfg_territories
              THEN cfg_territories - Len(territories_insert)
              ELSE draw
    /\ used_names' = {}
    /\ attempts' = 0
    /\ names_done' = 0
    /\ pc' = "geo_names"
    /\ UNCHANGED <<territories, cfg_countries, cfg_territories, country_idx,
                   territories_insert, db_territories, seq_territories, nonGeoVars>>

\* geographic.py 129-131: the attempt budget is spent before the country is full.
GeoAttemptsExhausted ==
    /\ pc = "geo_names"
    /\ names_done < num_territories
    /\ attempts >= name_max_attempts
    /\ LeaveCountry
    /\ UNCHANGED <<attempts, territories, cfg_countries, cfg_territories,
                   num_territories, names_done, used_names, territories_insert,
                   db_territories, seq_territories, nonGeoVars>>

\* geographic.py 133-148: a drawn name is already used in this country.
GeoNameCollides ==
    /\ pc = "geo_names"
    /\ names_done < num_territories
    /\ attempts < name_max_attempts
    /\ \E name \in RandomNames : ~NameIsFree(name)
    /\ attempts' = attempts + 1
    /\ pc' = IF attempts + 1 < name_max_attempts THEN "geo_names" ELSE "geo_fallback"
    /\ UNCHANGED <<territories, geoVars, nonGeoVars>>

\* geographic.py 154-168: record the territory and test the budget.
AppendTerritory(name) ==
    LET territory_id == Len(territories_insert) + 1
        code == country_data[country_idx].code
        entry == [name |-> name, country_id |-> country_id(country_idx),
                  country_code |-> code, id |-> NULL]
    IN  /\ used_names' = used_names \cup {name}
        /\ territories_insert' =
              Append(territories_insert,
                     [name |-> name, country_id |-> country_id(country_idx),
                      real_id |-> NULL])
        /\ territories' = [k \in 1 .. territory_id |->
                              IF k = territory_id THEN entry ELSE territories[k]]
        /\ names_done' = names_done + 1
        /\ IF territory_id >= cfg_territories
           THEN pc' = "geo_insert" /\ country_idx' = country_idx
           ELSE IF names_done + 1 >= num_territories
           THEN LeaveCountry
           ELSE pc' = "geo_names" /\ country_idx' = country_idx
        /\ UNCHANGED <<cfg_countries, cfg_territories, num_territories,
                       db_territories, seq_territories, nonGeoVars>>

\* geographic.py 133-148: a drawn name is new in this country.
GeoCreateTerritory ==
    /\ pc = "geo_names"
    /\ names_done < num_territories
    /\ attempts < name_max_attempts
    /\ attempts' = attempts + 1
    /\ \E name \in RandomNames :
          /\ NameIsFree(name)
          /\ AppendTerritory(name)

\* geographic.py 149-152: the while loop ran out, the numbered name is used.
GeoCreateFallback ==
    /\ pc = "geo_fallback"
    /\ attempts' = attempts
    /\ \E x \in Pool : AppendTerritory(FallbackName(x, used_names))

\* territory_lookup[(name, country_id)]: the last row carrying the pair
TerritoryLookup(table, name, cid) ==
    LET hits == {i \in DOMAIN table :
                    table[i].name = name /\ table[i].country_id = cid}
    IN  IF hits = {} THEN NULL
        ELSE table[CHOOSE i \in hits : \A j \in hits : j <= i].real_id

\* geographic.py 170-189: insert the territories, resolve the cache ids.
GeoInsert ==
    /\ pc = "geo_insert"
    /\ LET table == InsertRows(db_territories, territories_insert, seq_territories)
       IN  /\ db_territories' = table
           /\ territories' =
                [k \in DOMAIN territories |->
                    LET real_id == TerritoryLookup(table, territories[k].name,
                                                   territories[k].country_id)
                    IN  IF real_id # NULL
                        THEN [territories[k] EXCEPT !.id = real_id]
                        ELSE territories[k]]
    /\ seq_territories' = seq_territories + Len(territories_insert)
    /\ pc' = "geo_done"
    /\ UNCHANGED <<attempts, cfg_countries, cfg_territories, country_idx,
                   num_territories, names_done, used_names, territories_insert,
                   nonGeoVars>>

GeoNext ==
    \/ GeoStartCountry
    \/ GeoAttemptsExhausted
    \/ GeoNameCollides
    \/ GeoCreateTerritory
    \/ GeoCreateFallback
    \/ GeoInsert

(***************************************************************************)
(* Supplier stage: generate_supplier_data (supplier.py 74-234), from the   *)
(* supplier loop to the commit before generate_purchase_orders.            *)
(*                                                                         *)
(* A company name is the string faker.company() returns, optionally        *)
(* followed by " #<number>"; it is kept as <<company, number>> with 0 for  *)
(* no suffix.                                                              *)
(***************************************************************************)

\* supplier.py 94: faker.company()
CompanyName(x) == <<x, 0>>

\* supplier.py 101: f"{faker.company()} #{supplier_id}"
FallbackCompanyName(x, id) == <<x, id>>

\* supplier.py 95: company_name not in used_company_names
CompanyNameIsFree(name) == KeyIsFree(name, used_company_names)

\* supplier.py 81: the cache entries that carry a real id
available_territories ==
    {k \in DOMAIN territories : territories[k].id # NULL}

\* supplier.py 152-153
products_with_real_ids == SelectSeq(products, LAMBDA pr : pr.real_id # NULL)
suppliers_with_real_ids == SelectSeq(suppliers, LAMBDA sp : sp.real_id # NULL)

\* random.sample(suppliers_with_real_ids, num_suppliers): the ordered
\* selections of num distinct list positions
SamplesWithRepeats(list, num) == [1 .. num -> DOMAIN list]
Samples(list, num) ==
    {sq \in [1 .. num -> DOMAIN list] :
        \A i, j \in 1 .. num : i # j => sq[i] # sq[j]}

\* supplier.py 176-201: the relationships of one product, in sample order
Relationships(product, list, sample) ==
    [i \in DOMAIN sample |->
        [product_id |-> product.real_id,
         supplier_id |-> list[sample[i]].real_id,
         is_preferred |-> (i = 1),
         real_id |-> NULL]]

SupIdle ==
    /\ cfg_suppliers = 0
    /\ suppliers = <<>>
    /\ supplier_id = 1
    /\ used_company_names = {}
    /\ db_suppliers = <<>>
    /\ seq_suppliers = 1
    /\ product_idx = 1
    /\ product_suppliers = <<>>
    /\ db_product_suppliers = <<>>

\* cache['products'] as the product stage leaves it: working keys 1 .. n,
\* distinct SKUs, real ids as the store's sequence gave them.
ResolvedProducts(n) ==
    {[i \in 1 .. n |-> [id |-> i, sku |-> <<4, i>>, real_id |-> i + off]] :
        off \in 0 .. MaxSeqOffset}

\* The list `suppliers` once resolved (supplier.py 142-145).
ResolvedSuppliers(n) ==
    {[i \in 1 .. n |-> [id |-> i, company_name |-> <<i, 0>>, territory_id |-> 1,
                        real_id |-> i + off]] :
        off \in 0 .. MaxSeqOffset}

\* supplier.py 74-77
SupEntry ==
    /\ pc = "sup_names"
    /\ attempts = 0
    /\ territories \in OneTerritoryCaches
    /\ cfg_suppliers \in 1 .. MaxSuppliers
    /\ suppliers = <<>>
    /\ supplier_id = 1
    /\ used_company_names = {}
    /\ db_suppliers = <<>>
    /\ seq_suppliers \in SeqStarts
    /\ products = <<>>
    /\ product_idx = 1
    /\ product_suppliers = <<>>
    /\ db_product_suppliers = <<>>

\* supplier.py 93-98: a drawn company name is already used.
SupplierNameCollides ==
    /\ pc = "sup_names"
    /\ available_territories # {}
    /\ attempts < max_attempts
    /\ \E x \in Pool : ~CompanyNameIsFree(CompanyName(x))
    /\ attempts' = attempts + 1
    /\ UNCHANGED <<pc, territories, products, supVars, nonSupVars>>

\* supplier.py 79-122: one supplier.  Its territory is put into the cache
\* under its real id when that key is absent.
CreateSupplier ==
    /\ pc = "sup_names"
    /\ \E k \in available_territories, x \in Pool :
          LET name == IF attempts < max_attempts
                              THEN CompanyName(x)
                              ELSE FallbackCompanyName(x, supplier_id)
              territory == territories[k]
              supplier == [id |-> supplier_id, company_name |-> name,
                           territory_id |-> territory.id, real_id |-> NULL]
          IN  /\ attempts < max_attempts => CompanyNameIsFree(name)
              /\ used_company_names' = used_company_names \cup {name}
              /\ suppliers' = Append(suppliers, supplier)
              /\ territories' =
                    IF territory.id \in DOMAIN territories THEN territories
                    ELSE [key \in DOMAIN territories \cup {territory.id} |->
                             IF key \in DOMAIN territories THEN territories[key]
                             ELSE territory]
    /\ supplier_id' = supplier_id + 1
    /\ attempts' = 0
    /\ pc' = IF Len(suppliers) + 1 >= cfg_suppliers THEN "sup_insert" ELSE "sup_names"
    /\ UNCHANGED <<cfg_suppliers, db_suppliers, seq_suppliers, products,
                   product_idx, product_suppliers, db_product_suppliers,
                   nonSupVars>>

\* supplier_name_to_id: the last row carrying the name
SupplierNameToId(table, name) ==
    LET hits == {i \in DOMAIN table : table[i].company_name = name}
    IN  IF hits = {} THEN NULL
        ELSE table[CHOOSE i \in hits : \A j \in hits : j <= i].real_id

\* supplier.py 124-145: insert the suppliers, resolve their ids by name.
InsertSuppliers ==
    /\ pc = "sup_insert"
    /\ LET table == InsertRows(db_suppliers, suppliers, seq_suppliers)
       IN  /\ db_suppliers' = table
           /\ suppliers' =
                [i \in DOMAIN suppliers |->
                    [suppliers[i] EXCEPT
                        !.real_id = SupplierNameToId(table, suppliers[i].company_name)]]
    /\ seq_suppliers' = seq_suppliers + Len(suppliers)
    /\ pc' = "sup_rel"
    /\ UNCHANGED <<attempts, territories, cfg_suppliers, supplier_id,
                   used_company_names, products, product_idx, product_suppliers,
                   db_product_suppliers, nonSupVars>>

\* supplier.py 155-161: nothing to relate, the stage returns.
SupplierStageReturns ==
    /\ pc = "sup_rel"
    /\ products_with_real_ids = <<>> \/ suppliers_with_real_ids = <<>>
    /\ pc' = "sup_done"
    /\ UNCHANGED <<attempts, territories, products, supVars, nonSupVars>>

\* supplier.py 171-201: the relationships of the next product.
AddRelationships ==
    /\ pc = "sup_rel"
    /\ products_with_real_ids # <<>>
    /\ suppliers_with_real_ids # <<>>
    /\ product_idx <= Len(products_with_real_ids)
    /\ \E num_suppliers \in 1 .. Min(3, Len(suppliers_with_real_ids)) :
          \E sample \in Samples(suppliers_with_real_ids, num_suppliers) :
             product_suppliers' =
                 product_suppliers \o
                 Relationships(products_with_real_ids[product_idx],
                               suppliers_with_real_ids, sample)
    /\ product_idx' = product_idx + 1
    /\ UNCHANGED <<pc, attempts, territories, cfg_suppliers, suppliers,
                   supplier_id, used_company_names, db_suppliers, seq_suppliers,
                   products, db_product_suppliers, nonSupVars>>

\* supplier.py 207-238: insert the relationships, commit, go on to the
\* purchase orders.
InsertRelationships ==
    /\ pc = "sup_rel"
    /\ products_with_real_ids # <<>>
    /\ suppliers_with_real_ids # <<>>
    /\ product_idx > Len(products_with_real_ids)
    /\ db_product_suppliers' = InsertRows(db_product_suppliers, product_suppliers, 1)
    /\ pc' = "po_loop"
    /\ UNCHANGED <<attempts, territories, cfg_suppliers, suppliers, supplier_id,
                   used_company_names, db_suppliers, seq_suppliers, products,
                   product_idx, product_suppliers, nonSupVars>>

\* supplier.py 147-153: the relationship part starts from the resolved
\* suppliers and the products of the cache.
RelEntry ==
    /\ pc = "sup_rel"
    /\ attempts = 0
    /\ territories = <<>>
    /\ cfg_suppliers \in 1 .. MaxSuppliers
    /\ suppliers \in ResolvedSuppliers(cfg_suppliers)
    /\ supplier_id = cfg_suppliers + 1
    /\ used_company_names = {}
    /\ db_suppliers = <<>>
    /\ seq_suppliers = 1
    /\ \E n \in 0 .. MaxProducts : products \in ResolvedProducts(n)
    /\ product_idx = 1
    /\ product_suppliers = <<>>
    /\ db_product_suppliers = <<>>

SupNext ==
    \/ SupplierNameCollides
    \/ CreateSupplier
    \/ InsertSuppliers

RelNext ==
    \/ SupplierStageReturns
    \/ AddRelationships
    \/ InsertRelationships

(***************************************************************************)
(* Purchase orders: generate_purchase_orders (supplier.py 240-441).        *)
(*                                                                         *)
(* A PO number is the string "PO-<year>-<digits>"; it is kept as           *)
(* <<number of digits, value>>, which decides string equality.             *)
(***************************************************************************)

\* base.py 47: f"PO-{year}-{random_int(10000, 99999)}"
RandomPoNumber(x) == <<5, x>>

\* supplier.py 306: f"PO-{year}-{po_num:06d}"
FallbackPoNumber(n) == <<6, n>>

\* supplier.py 301: po_number not in used_po_numbers
PoNumberIsFree(po_number) == KeyIsFree(po_number, used_po_numbers)

\* supplier.py 251
suppliers_with_ids == SelectSeq(suppliers, LAMBDA sp : sp.real_id # NULL)

\* supplier.py 328-334: SELECT ... FROM product_suppliers WHERE supplier_id = %s
supplier_products(supplier) ==
    SelectSeq(db_product_suppliers, LAMBDA r : r.supplier_id = supplier.real_id)

\* supplier.py 339-377: the lines of one purchase order; each draws a row of
\* supplier_products and whether duties apply
LineDraws(rows) ==
    UNION {[1 .. n -> (DOMAIN rows) \X BOOLEAN] : n \in 1 .. MaxLines}

\* supplier.py 349-357
PoDetails(po_number, rows, draws) ==
    [i \in DOMAIN draws |->
        [po_number |-> po_number, product_id |-> rows[draws[i][1]].product_id,
         real_id |-> NULL]]

\* supplier.py 361-377: a TRANSPORT entry per line, a DUTIES entry if drawn
RECURSIVE PoLineCosts(_, _, _)
PoLineCosts(po_number, rows, draws) ==
    IF draws = <<>> THEN <<>>
    ELSE LET key == <<po_number, rows[Head(draws)[1]].product_id>>
             transport == [po_detail_key |-> key, cost_type |-> "TRANSPORT",
                           real_id |-> NULL]
             duties == [po_detail_key |-> key, cost_type |-> "DUTIES",
                        real_id |-> NULL]
         IN  (IF Head(draws)[2] THEN <<transport, duties>> ELSE <<transport>>)
                \o PoLineCosts(po_number, rows, Tail(draws))

POIdle ==
    /\ cfg_purchase_orders = 0
    /\ po_num = 1
    /\ purchase_orders = <<>>
    /\ po_details = <<>>
    /\ po_line_costs = <<>>
    /\ used_po_numbers = {}
    /\ db_purchase_orders = <<>>
    /\ db_purchase_order_details = <<>>
    /\ db_purchase_order_line_costs = <<>>

\* The relationship tables the supplier stage can have committed.
RECURSIVE RelationshipTables(_)
RelationshipTables(i) ==
    IF i > Len(products) THEN {<<>>}
    ELSE {Relationships(products[i], suppliers, sample) \o rest :
             sample \in UNION {Samples(suppliers, num) :
                                  num \in 1 .. Min(3, Len(suppliers))},
             rest \in RelationshipTables(i + 1)}

\* supplier.py 238-271: entered from generate_supplier_data after its commit.
POEntry ==
    /\ pc = "po_loop"
    /\ attempts = 0
    /\ territories = <<>>
    /\ cfg_suppliers \in 1 .. MaxSuppliers
    /\ suppliers \in ResolvedSuppliers(cfg_suppliers)
    /\ supplier_id = cfg_suppliers + 1
    /\ used_company_names = {}
    /\ db_suppliers = <<>>
    /\ seq_suppliers = 1
    /\ \E n \in 1 .. MaxProducts : products \in ResolvedProducts(n)
    /\ product_idx = Len(products) + 1
    /\ \E table \in RelationshipTables(1) :
          /\ product_suppliers = table
          /\ db_product_suppliers = InsertRows(<<>>, table, 1)
    /\ cfg_purchase_orders \in 1 .. MaxPurchaseOrders
    /\ po_num = 1
    /\ purchase_orders = <<>>
    /\ po_details = <<>>
    /\ po_line_costs = <<>>
    /\ used_po_numbers = {}
    /\ db_purchase_orders = <<>>
    /\ db_purchase_order_details = <<>>
    /\ db_purchase_order_line_costs = <<>>

\* supplier.py 299-304: a drawn PO number is already used.
PoNumberCollides ==
    /\ pc = "po_loop"
    /\ po_num <= cfg_purchase_orders
    /\ attempts < max_attempts
    /\ \E x \in Pool : ~PoNumberIsFree(RandomPoNumber(x))
    /\ attempts' = attempts + 1
    /\ UNCHANGED <<pc, territories, poVars, nonPOVars>>

\* supplier.py 271-380: one iteration.  The PO dict is appended before the
\* supplier's products are queried; an iteration that finds none leaves the
\* dict in the list without the key 'total_cost'.
CreatePurchaseOrder ==
    /\ pc = "po_loop"
    /\ po_num <= cfg_purchase_orders
    /\ \E si \in DOMAIN suppliers_with_ids, po_number \in
                {RandomPoNumber(x) : x \in Pool} \cup {FallbackPoNumber(po_num)} :
          LET supplier == suppliers_with_ids[si]
              rows == supplier_products(supplier)
              po == [po_number |-> po_number, supplier_id |-> supplier.real_id,
                     has_total_cost |-> rows # <<>>, real_id |-> NULL]
          IN  /\ IF attempts < max_attempts
                 THEN po_number[1] = 5 /\ PoNumberIsFree(po_number)
                 ELSE po_number = FallbackPoNumber(po_num)
              /\ used_po_numbers' = used_po_numbers \cup {po_number}
              /\ purchase_orders' = Append(purchase_orders, po)
              /\ IF rows = <<>>
                 THEN UNCHANGED <<po_details, po_line_costs>>
                 ELSE \E draws \in LineDraws(rows) :
                         /\ po_details' = po_details \o PoDetails(po_number, rows, draws)
                         /\ po_line_costs' =
                               po_line_costs \o PoLineCosts(po_number, rows, draws)
    /\ attempts' = 0
    /\ po_num' = po_num + 1
    /\ UNCHANGED <<pc, territories, cfg_purchase_orders, db_purchase_orders,
                   db_purchase_order_details, db_purchase_order_line_costs,
                   nonPOVars>>

\* po_number_to_id / po_detail_lookup: the last row carrying the key
PoNumberToId(table, po_number) ==
    LET hits == {i \in DOMAIN table : table[i].po_number = po_number}
    IN  IF hits = {} THEN NULL
        ELSE table[CHOOSE i \in hits : \A j \in hits : j <= i].real_id

\* supplier.py 402-406
po_details_insert(po_table) ==
    LET known == SelectSeq(po_details,
                     LAMBDA dt : PoNumberToId(po_table, dt.po_number) # NULL)
    IN  [i \in DOMAIN known |->
            [po_id |-> PoNumberToId(po_table, known[i].po_number),
             product_id |-> known[i].product_id, real_id |-> NULL]]

\* supplier.py 416-423: the join of details and purchase orders, as a dict
PoDetailLookup(po_table, detail_table, key) ==
    LET hits == {i \in DOMAIN detail_table :
                    /\ detail_table[i].product_id = key[2]
                    /\ \E j \in DOMAIN po_table :
                          /\ po_table[j].real_id = detail_table[i].po_id
                          /\ po_table[j].po_number = key[1]}
    IN  IF hits = {} THEN NULL
        ELSE detail_table[CHOOSE i \in hits : \A j \in hits : j <= i].real_id

\* supplier.py 426-430
line_costs_insert(po_table, detail_table) ==
    LET known == SelectSeq(po_line_costs,
                     LAMBDA c : PoDetailLookup(po_table, detail_table,
                                               c.po_detail_key) # NULL)
    IN  [i \in DOMAIN known |->
            [po_detail_id |-> PoDetailLookup(po_table, detail_table,
                                             known[i].po_detail_key),
             cost_type |-> known[i].cost_type, real_id |-> NULL]]

\* supplier.py 383-388: po['total_cost'] is read for every dict of the list
PoInsertRaises ==
    \E i \in DOMAIN purchase_orders : ~purchase_orders[i].has_total_cost

\* supplier.py 382-441: build the insert lists, insert, commit.  A dict
\* without 'total_cost' raises KeyError before anything is written; the
\* exception leaves generate_purchase_orders and generate_supplier_data.
InsertPurchaseOrders ==
    /\ pc = "po_loop"
    /\ po_num > cfg_purchase_orders
    /\ IF PoInsertRaises
       THEN /\ pc' = "po_failed"
            /\ UNCHANGED <<db_purchase_orders, db_purchase_order_details,
                           db_purchase_order_line_costs>>
       ELSE LET po_table == InsertRows(db_purchase_orders, purchase_orders, 1)
                detail_table == InsertRows(db_purchase_order_details,
                                           po_details_insert(po_table), 1)
            IN  /\ db_purchase_orders' = po_table
                /\ db_purchase_order_details' = detail_table
                /\ db_purchase_order_line_costs' =
                      InsertRows(db_purchase_order_line_costs,
                                 line_costs_insert(po_table, detail_table), 1)
                /\ pc' = "po_done"
    /\ UNCHANGED <<attempts, territories, cfg_purchase_orders, po_num,
                   purchase_orders, po_details, po_line_costs, used_po_numbers,
                   nonPOVars>>

PONext ==
    \/ PoNumberCollides
    \/ CreatePurchaseOrder
    \/ InsertPurchaseOrders

(***************************************************************************)
(* Product stage, products part (product.py 197-283).                      *)
(*                                                                         *)
(* A SKU is "<prefix>-<digits>-<tail>"; it is kept as                      *)
(* <<number of digits, value>> for a drawn SKU and                         *)
(* <<number of digits, value, tail>> for the fallback.                     *)
(***************************************************************************)

\* base.py 28: f"{PRD|ITM|SKU}-{random_int(1000, 9999)}-{lexify('???')}"
RandomSku(x) == <<4, x>>

\* product.py 248: f"PRD-{product_id:06d}-{random.randint(100, 999)}"
FallbackSku(id, y) == <<6, id, y>>

\* product.py 243: sku not in used_skus
SkuIsFree(sku) == KeyIsFree(sku, used_skus)

ProdIdle ==
    /\ cfg_products = 0
    /\ product_id = 1
    /\ used_skus = {}
    /\ db_products = <<>>
    /\ seq_products = 1

\* product.py 197-200
ProdEntry ==
    /\ pc = "prod_skus"
    /\ attempts = 0
    /\ territories = <<>>
    /\ products = <<>>
    /\ cfg_products \in 1 .. MaxProducts
    /\ product_id = 1
    /\ used_skus = {}
    /\ db_products = <<>>
    /\ seq_products \in SeqStarts

\* product.py 241-246: a drawn SKU is already used.
SkuCollides ==
    /\ pc = "prod_skus"
    /\ attempts < max_attempts
    /\ \E x \in Pool : ~SkuIsFree(RandomSku(x))
    /\ attempts' = attempts + 1
    /\ UNCHANGED <<pc, territories, products, prodVars, nonProdVars>>

\* product.py 202-261: one product.
CreateProduct ==
    /\ pc = "prod_skus"
    /\ \E x \in Pool :
          LET sku == IF attempts < max_attempts
                     THEN RandomSku(x)
                     ELSE FallbackSku(product_id, x)
          IN  /\ attempts < max_attempts => SkuIsFree(sku)
              /\ used_skus' = used_skus \cup {sku}
              /\ products' = Append(products, [id |-> product_id, sku |-> sku,
                                               real_id |-> NULL])
    /\ product_id' = product_id + 1
    /\ attempts' = 0
    /\ pc' = IF Len(products) + 1 >= cfg_products THEN "prod_insert" ELSE "prod_skus"
    /\ UNCHANGED <<territories, cfg_products, db_products, seq_products, nonProdVars>>

\* sku_to_id: the last row carrying the SKU
SkuToId(table, sku) ==
    LET hits == {i \in DOMAIN table : table[i].sku = sku}
    IN  IF hits = {} THEN NULL
        ELSE table[CHOOSE i \in hits : \A j \in hits : j <= i].real_id

\* product.py 263-283: insert the products, resolve their ids by SKU.
InsertProducts ==
    /\ pc = "prod_insert"
    /\ LET table == InsertRows(db_products, products, seq_products)
       IN  /\ db_products' = table
           /\ products' = [i \in DOMAIN products |->
                             [products[i] EXCEPT
                                 !.real_id = SkuToId(table, products[i].sku)]]
    /\ seq_products' = seq_products + Len(products)
    /\ pc' = "prod_prices"
    /\ UNCHANGED <<attempts, territories, cfg_products, product_id, used_skus,
                   nonProdVars>>

ProdNext ==
    \/ SkuCollides
    \/ CreateProduct
    \/ InsertProducts

(***************************************************************************)
(* Customer stage, customers part (customer.py 70-172).                    *)
(***************************************************************************)

\* customer.py 123: f"customer{customer_id}@{faker.domain_name()}"
CustomerFallbackEmail(id) == <<"customer", id>>

\* customer.py 106: company_name not in used_customer_names
CustomerNameIsFree(name) == KeyIsFree(name, used_customer_names)

\* customer.py 118: contact_email not in used_emails
CustomerEmailIsFree(email) == KeyIsFree(email, customer_used_emails)

CustIdle ==
    /\ cfg_customers = 0
    /\ customer_id = 1
    /\ customers = <<>>
    /\ used_customer_names = {}
    /\ customer_used_emails = {}
    /\ company_name = <<>>
    /\ db_customers = <<>>
    /\ seq_customers = 1
    /\ customer_addresses = <<>>
    /\ db_addresses = <<>>
    /\ db_customer_addresses = <<>>

\* customer.py 9-25: the stage is entered; table addresses holds what the
\* supplier stage left in it.
CustEntry ==
    /\ pc = "cust_new_addresses"
    /\ attempts = 0
    /\ territories \in OneTerritoryCaches
    /\ products = <<>>
    /\ cfg_customers \in 1 .. MaxCustomers
    /\ customer_id = 1
    /\ customers = <<>>
    /\ used_customer_names = {}
    /\ customer_used_emails = {}
    /\ company_name = <<>>
    /\ db_customers = <<>>
    /\ seq_customers \in SeqStarts
    /\ customer_addresses = <<>>
    /\ db_addresses \in {<<>>, <<1>>}
    /\ db_customer_addresses = <<>>

\* customer.py 27-68: one new address per iteration whose territory has an
\* id; all_addresses is then read back, ordered by address_id.
InsertNewAddresses ==
    /\ pc = "cust_new_addresses"
    /\ \E new_addresses \in [1 .. cfg_customers -> DOMAIN territories] :
          /\ \A i \in DOMAIN new_addresses : territories[new_addresses[i]].id # NULL
          /\ db_addresses' = db_addresses \o
                 [i \in DOMAIN new_addresses |-> Len(db_addresses) + i]
    /\ pc' = "cust_name"
    /\ UNCHANGED <<attempts, territories, products, cfg_customers, customer_id,
                   customers, used_customer_names, customer_used_emails,
                   company_name, db_customers, seq_customers, customer_addresses,
                   db_customer_addresses, nonCustVars>>

all_addresses == Range(db_addresses)

\* customer.py 142-149: the BILLING row, and with it a SHIPPING row when the
\* draw is below 0.7.
AddressRows(id, billing_address, separate, shipping_address) ==
    <<[customer_id |-> id, address_id |-> billing_address,
       address_type |-> "BILLING", is_primary |-> TRUE]>>
    \o (IF separate
        THEN <<[customer_id |-> id, address_id |-> shipping_address,
                address_type |-> "SHIPPING", is_primary |-> FALSE]>>
        ELSE <<>>)

\* customer.py 104-109: a drawn company name is already used.
CustomerNameCollides ==
    /\ pc = "cust_name"
    /\ attempts < max_attempts
    /\ \E x \in Pool : ~CustomerNameIsFree(CompanyName(x))
    /\ attempts' = attempts + 1
    /\ UNCHANGED <<pc, territories, products, custVars, nonCustVars>>

\* customer.py 101-115: the company name of this customer is settled.
ChooseCustomerName ==
    /\ pc = "cust_name"
    /\ \E x \in Pool :
          LET name == IF attempts < max_attempts
                      THEN CompanyName(x)
                      ELSE FallbackCompanyName(x, customer_id)
          IN  /\ attempts < max_attempts => CustomerNameIsFree(name)
              /\ used_customer_names' = used_customer_names \cup {name}
              /\ company_name' = name
    /\ attempts' = 0
    /\ pc' = "cust_email"
    /\ UNCHANGED <<territories, products, cfg_customers, customer_id, customers,
                   customer_used_emails, db_customers, seq_customers,
                   customer_addresses, db_addresses, db_customer_addresses,
                   nonCustVars>>

\* customer.py 116-121: a drawn email is already used.
CustomerEmailCollides ==
    /\ pc = "cust_email"
    /\ attempts < max_attempts
    /\ \E e \in Pool : ~CustomerEmailIsFree(RandomEmail(e))
    /\ attempts' = attempts + 1
    /\ UNCHANGED <<pc, territories, products, custVars, nonCustVars>>

\* customer.py 114-140: the email is settled, the customer is recorded.
CreateCustomer ==
    /\ pc = "cust_email"
    /\ \E e \in Pool, k \in DOMAIN territories :
          LET contact_email == IF attempts < max_attempts
                               THEN RandomEmail(e)
                               ELSE CustomerFallbackEmail(customer_id)
          IN  /\ territories[k].id # NULL
              /\ attempts < max_attempts => CustomerEmailIsFree(contact_email)
              /\ customer_used_emails' = customer_used_emails \cup {contact_email}
              /\ customers' = Append(customers,
                                [id |-> customer_id, company_name |-> company_name,
                                 contact_email |-> contact_email,
                                 territory_id |-> territories[k].id,
                                 real_id |-> NULL])
    /\ \E billing_address \in all_addresses, separate \in BOOLEAN,
          shipping_address \in all_addresses :
          /\ ~separate => shipping_address = billing_address
          /\ customer_addresses' = customer_addresses \o
                 AddressRows(customer_id, billing_address, separate,
                             shipping_address)
    /\ attempts' = 0
    /\ customer_id' = customer_id + 1
    /\ pc' = IF customer_id + 1 > cfg_customers THEN "cust_insert" ELSE "cust_name"
    /\ UNCHANGED <<territories, products, cfg_customers, used_customer_names,
                   company_name, db_customers, seq_customers, db_addresses,
                   db_customer_addresses, nonCustVars>>

\* customer.py 151-172: insert the customers, resolve their ids by name.
InsertCustomers ==
    /\ pc = "cust_insert"
    /\ LET table == InsertRows(db_customers, customers, seq_customers)
       IN  /\ db_customers' = table
           /\ customers' =
                [i \in DOMAIN customers |->
                    [customers[i] EXCEPT
                        !.real_id = SupplierNameToId(table, customers[i].company_name)]]
    /\ seq_customers' = seq_customers + Len(customers)
    /\ pc' = "cust_addresses"
    /\ UNCHANGED <<attempts, territories, products, cfg_customers, customer_id,
                   used_customer_names, customer_used_emails, company_name,
                   customer_addresses, db_addresses, db_customer_addresses,
                   nonCustVars>>

\* customer.py 176: customers[ca[0]-1], as a position in the list `customers`
OwnerPositionShifted(id) == Max(1, id - 1)
OwnerPosition(id) == id

\* customer.py 175-179: the rows whose customer's name is in
\* customer_name_to_id, each under the id that name maps to.
customer_addresses_insert ==
    LET owner(ca) == customers[OwnerPosition(ca.customer_id)]
        known == SelectSeq(customer_addresses,
                   LAMBDA ca : SupplierNameToId(db_customers,
                                                owner(ca).company_name) # NULL)
    IN  [i \in DOMAIN known |->
            [known[i] EXCEPT
                !.customer_id = SupplierNameToId(db_customers,
                                                 owner(known[i]).company_name)]]

\* customer.py 174-206: insert the customer addresses and the shipping
\* methods, commit.
InsertCustomerAddresses ==
    /\ pc = "cust_addresses"
    /\ db_customer_addresses' = db_customer_addresses \o customer_addresses_insert
    /\ pc' = "cust_done"
    /\ UNCHANGED <<attempts, territories, products, cfg_customers, customer_id,
                   customers, used_customer_names, customer_used_emails,
                   company_name, db_customers, seq_customers, customer_addresses,
                   db_addresses, nonCustVars>>

CustNext ==
    \/ InsertNewAddresses
    \/ InsertCustomerAddresses
    \/ CustomerNameCollides
    \/ ChooseCustomerName
    \/ CustomerEmailCollides
    \/ CreateCustomer
    \/ InsertCustomers

(***************************************************************************)
(* Product stage, categories part (product.py 26-191).                     *)
(*                                                                         *)
(* A category name is a string built from parts joined by " - " and        *)
(* blanks; it is kept as the tuple of its parts.  A root's name is <<r>>   *)
(* for the r-th entry of root_categories; a sub-category's name extends    *)
(* its root's by <<word, suffix, number>>, a sub-sub-category's name       *)
(* extends its parent's by <<suffix, number>>; 0 is "no word" and "no      *)
(* number".                                                                *)
(***************************************************************************)

\* product.py 31-35: len(root_categories)
NumRootNames == 10

\* product.py 57: max_attempts = 20
cat_max_attempts == 20

\* product.py 145: max_levels = 5
max_levels == 5

\* product.py 60: one of the seven suffixes
subcat_suffixes == {"Systems"}

\* product.py 92: two of the six suffixes
subsub_suffixes == {"Professional", "Standard"}

\* product.py 61: f"{root_name} - {word} {suffix}"
SubcatName(root_name, word, suffix) == root_name \o <<word, suffix, 0>>

\* product.py 69: f"{root_name} - Category {i + 1}"
FallbackSubcatName(root_name, i) == root_name \o <<0, "Category", i + 1>>

\* product.py 93: f"{subcat_name} - {subsub_suffix}"
SubsubName(subcat_name, suffix) == subcat_name \o <<suffix, 0>>

\* product.py 101: f"{subcat_name} - Type {j + 1}"
FallbackSubsubName(subcat_name, j) == subcat_name \o <<"Type", j + 1>>

\* product.py 28, 45, 79, 111: the counter runs one ahead of the list
category_id == Len(categories) + 1

\* the dict `root_cat`: the latest category without parent
root_cat ==
    categories[CHOOSE i \in DOMAIN categories :
                  /\ categories[i].parent_category = NULL
                  /\ \A j \in DOMAIN categories :
                        categories[j].parent_category = NULL => j <= i]

\* the dict `sub_cat`: the latest child of root_cat
sub_cat ==
    categories[CHOOSE i \in DOMAIN categories :
                  /\ categories[i].parent_category = root_cat.id
                  /\ \A j \in DOMAIN categories :
                        categories[j].parent_category = root_cat.id => j <= i]

\* product.py 107: 'parent_category': sub_cat['id']
SubsubParentLatest == categories[Len(categories)].id
SubsubParent == sub_cat.id

CatIdle ==
    /\ cfg_product_categories = 0
    /\ categories = <<>>
    /\ root_idx = 1
    /\ num_subcats = 0
    /\ sub_i = 0
    /\ used_subcat_names = {}
    /\ num_subsubcats = 0
    /\ subsub_j = 0
    /\ used_subsubcat_names = {}
    /\ remaining_categories = <<>>
    /\ inserted_categories = <<>>
    /\ level = 0
    /\ db_product_categories = <<>>
    /\ seq_categories = 1

\* product.py 26-28
CatEntry ==
    /\ pc = "cat_root"
    /\ attempts = 0
    /\ territories = <<>>
    /\ products = <<>>
    /\ cfg_product_categories \in 1 .. MaxCategories
    /\ categories = <<>>
    /\ root_idx = 1
    /\ num_subcats = 0
    /\ sub_i = 0
    /\ used_subcat_names = {}
    /\ num_subsubcats = 0
    /\ subsub_j = 0
    /\ used_subsubcat_names = {}
    /\ remaining_categories = <<>>
    /\ inserted_categories = <<>>
    /\ level = 0
    /\ db_product_categories = <<>>
    /\ seq_categories \in SeqStarts

\* product.py 37-51: the next root category and the bound of its sub loop.
CreateRoot ==
    /\ pc = "cat_root"
    /\ root_idx <= Min(NumRootNames, cfg_product_categories)
    /\ categories' = Append(categories,
                            [id |-> category_id, name |-> <<root_idx>>,
                             parent_category |-> NULL, real_id |-> NULL])
    /\ \E draw \in 3 .. 8 :
          num_subcats' =
              Min(draw, (cfg_product_categories - (Len(categories) + 1)) \div 2)
    /\ sub_i' = 0
    /\ used_subcat_names' = {}
    /\ pc' = "cat_sub"
    /\ UNCHANGED <<attempts, cfg_product_categories, root_idx, num_subsubcats,
                   subsub_j, used_subsubcat_names, remaining_categories,
                   inserted_categories, level, db_product_categories,
                   seq_categories, nonCatVars>>

\* product.py 51-53: the sub loop of this root is over; on to the next root,
\* or to the insertion after the last one.
LeaveSubLoop ==
    /\ pc = "cat_sub"
    /\ sub_i >= num_subcats \/ category_id > cfg_product_categories
    /\ root_idx' = root_idx + 1
    /\ pc' = IF root_idx + 1 > Min(NumRootNames, cfg_product_categories)
             THEN "cat_insert_roots" ELSE "cat_root"
    /\ UNCHANGED <<attempts, cfg_product_categories, categories, num_subcats,
                   sub_i, used_subcat_names, num_subsubcats, subsub_j,
                   used_subsubcat_names, remaining_categories,
                   inserted_categories, level, db_product_categories,
                   seq_categories, nonCatVars>>

\* product.py 58-66: a drawn sub-category name is already used.
SubcatNameCollides ==
    /\ pc = "cat_sub"
    /\ sub_i < num_subcats
    /\ category_id <= cfg_product_categories
    /\ attempts < cat_max_attempts
    /\ \E word \in Pool, suffix \in subcat_suffixes :
          SubcatName(root_cat.name, word, suffix) \in used_subcat_names
    /\ attempts' = attempts + 1
    /\ UNCHANGED <<pc, catVars, nonCatVars>>

\* product.py 55-85: one sub-category, and the draw that decides whether it
\* gets sub-sub-categories.
CreateSubcat ==
    /\ pc = "cat_sub"
    /\ sub_i < num_subcats
    /\ category_id <= cfg_product_categories
    /\ \E word \in Pool, suffix \in subcat_suffixes :
          LET subcat_name == IF attempts < cat_max_attempts
                             THEN SubcatName(root_cat.name, word, suffix)
                             ELSE FallbackSubcatName(root_cat.name, sub_i)
          IN  /\ attempts < cat_max_attempts => subcat_name \notin used_subcat_names
              /\ used_subcat_names' = used_subcat_names \cup {subcat_name}
              /\ categories' = Append(categories,
                                  [id |-> category_id, name |-> subcat_name,
                                   parent_category |-> root_cat.id,
                                   real_id |-> NULL])
    /\ attempts' = 0
    /\ \/ /\ category_id + 1 <= cfg_product_categories
          /\ \E draw \in 1 .. 3 : num_subsubcats' = draw
          /\ subsub_j' = 0
          /\ used_subsubcat_names' = {}
          /\ pc' = "cat_subsub"
          /\ UNCHANGED sub_i
       \/ /\ sub_i' = sub_i + 1
          /\ UNCHANGED <<pc, num_subsubcats, subsub_j, used_subsubcat_names>>
    /\ UNCHANGED <<cfg_product_categories, root_idx, num_subcats,
                   remaining_categories, inserted_categories, level,
                   db_product_categories, seq_categories, nonCatVars>>

\* product.py 85-87: the sub-sub loop is over; next pass of the sub loop.
LeaveSubsubLoop ==
    /\ pc = "cat_subsub"
    /\ subsub_j >= num_subsubcats \/ category_id > cfg_product_categories
    /\ sub_i' = sub_i + 1
    /\ pc' = "cat_sub"
    /\ UNCHANGED <<attempts, cfg_product_categories, categories, root_idx,
                   num_subcats, used_subcat_names, num_subsubcats, subsub_j,
                   used_subsubcat_names, remaining_categories,
                   inserted_categories, level, db_product_categories,
                   seq_categories, nonCatVars>>

\* product.py 91-98: a drawn sub-sub-category name is already used.
SubsubNameCollides ==
    /\ pc = "cat_subsub"
    /\ subsub_j < num_subsubcats
    /\ category_id <= cfg_product_categories
    /\ attempts < cat_max_attempts
    /\ \E suffix \in subsub_suffixes :
          SubsubName(sub_cat.name, suffix) \in used_subsubcat_names
    /\ attempts' = attempts + 1
    /\ UNCHANGED <<pc, catVars, nonCatVars>>

\* product.py 85-111: one sub-sub-category.
CreateSubsub ==
    /\ pc = "cat_subsub"
    /\ subsub_j < num_subsubcats
    /\ category_id <= cfg_product_categories
    /\ \E suffix \in subsub_suffixes :
          LET subsub_name == IF attempts < cat_max_attempts
                             THEN SubsubName(sub_cat.name, suffix)
                             ELSE FallbackSubsubName(sub_cat.name, subsub_j)
          IN  /\ attempts < cat_max_attempts
                    => subsub_name \notin used_subsubcat_names
              /\ used_subsubcat_names' = used_subsubcat_names \cup {subsub_name}
              /\ categories' = Append(categories,
                                  [id |-> category_id, name |-> subsub_name,
                                   parent_category |-> SubsubParent,
                                   real_id |-> NULL])
    /\ attempts' = 0
    /\ subsub_j' = subsub_j + 1
    /\ UNCHANGED <<pc, cfg_product_categories, root_idx, num_subcats, sub_i,
                   used_subcat_names, num_subsubcats, remaining_categories,
                   inserted_categories, level, db_product_categories,
                   seq_categories, nonCatVars>>

\* category_name_to_real_id / current_name_to_id: the last row with the name
CategoryNameToId(table, name) ==
    LET hits == {i \in DOMAIN table : table[i].name = name}
    IN  IF hits = {} THEN NULL
        ELSE table[CHOOSE i \in hits : \A j \in hits : j <= i].real_id

\* product.py 116: the categories without parent, as positions in categories
root_positions ==
    SelectSeq([i \in DOMAIN categories |-> i],
              LAMBDA i : categories[i].parent_category = NULL)

\* product.py 141: the categories with a parent, as positions in categories
child_positions ==
    SelectSeq([i \in DOMAIN categories |-> i],
              LAMBDA i : categories[i].parent_category # NULL)

\* The rows inserted for the categories at positions `list`, in pass `n`.
CategoryRows(cats, list, n) ==
    [k \in DOMAIN list |->
        [name |-> cats[list[k]].name,
         parent_category |-> cats[list[k]].parent_category,
         pass |-> n, real_id |-> NULL]]

\* product.py 116-142: insert the roots, resolve them, split the list.
InsertRootCategories ==
    /\ pc = "cat_insert_roots"
    /\ LET roots == root_positions
           table == InsertRows(db_product_categories,
                               CategoryRows(categories, roots, 0), seq_categories)
       IN  /\ db_product_categories' = table
           /\ seq_categories' = seq_categories + Len(roots)
           /\ categories' =
                [i \in DOMAIN categories |->
                    IF categories[i].parent_category = NULL
                    THEN [categories[i] EXCEPT
                             !.real_id = CategoryNameToId(table, categories[i].name)]
                    ELSE categories[i]]
           /\ inserted_categories' = roots
           /\ remaining_categories' = child_positions
    /\ level' = 0
    /\ pc' = "cat_levels"
    /\ UNCHANGED <<attempts, cfg_product_categories, root_idx, num_subcats,
                   sub_i, used_subcat_names, num_subsubcats, subsub_j,
                   used_subsubcat_names, nonCatVars>>

\* product.py 153-159: the real id of the first inserted category whose
\* working id is the parent's and that is resolved; NULL if there is none
ParentWorkingId(pos, inserted) == categories[pos].parent_category
InsertedParent(pos, inserted) ==
    LET hits == {k \in DOMAIN inserted :
                    /\ categories[inserted[k]].id = categories[pos].parent_category
                    /\ categories[inserted[k]].real_id # NULL}
    IN  IF hits = {} THEN NULL
        ELSE categories[inserted[CHOOSE k \in hits : \A m \in hits : k <= m]].real_id

\* product.py 146-191: one pass of the level loop.
InsertLevel ==
    /\ pc = "cat_levels"
    /\ level < max_levels
    /\ remaining_categories # <<>>
    /\ LET ready_to_insert ==
               SelectSeq(remaining_categories,
                         LAMBDA pos : InsertedParent(pos, inserted_categories) # NULL)
           ready == Range(ready_to_insert)
           relinked ==
               [i \in DOMAIN categories |->
                   IF i \in ready
                   THEN [categories[i] EXCEPT
                            !.parent_category =
                                InsertedParent(i, inserted_categories)]
                   ELSE categories[i]]
           table == InsertRows(db_product_categories,
                               CategoryRows(relinked, ready_to_insert, level + 1),
                               seq_categories)
       IN  IF ready_to_insert = <<>>
           THEN /\ pc' = "cat_done"
                /\ UNCHANGED <<categories, remaining_categories,
                               inserted_categories, level,
                               db_product_categories, seq_categories>>
           ELSE /\ db_product_categories' = table
                /\ seq_categories' = seq_categories + Len(ready_to_insert)
                /\ categories' =
                     [i \in DOMAIN categories |->
                         IF i \in ready
                         THEN [relinked[i] EXCEPT
                                  !.real_id = CategoryNameToId(table, relinked[i].name)]
                         ELSE categories[i]]
                /\ inserted_categories' = inserted_categories \o ready_to_insert
                /\ remaining_categories' =
                     SelectSeq(remaining_categories, LAMBDA pos : pos \notin ready)
                /\ level' = level + 1
                /\ pc' = "cat_levels"
    /\ UNCHANGED <<attempts, cfg_product_categories, root_idx, num_subcats,
                   sub_i, used_subcat_names, num_subsubcats, subsub_j,
                   used_subsubcat_names, nonCatVars>>

\* product.py 146-148: nothing remains, or max_levels passes were made.
LeaveLevelLoop ==
    /\ pc = "cat_levels"
    /\ remaining_categories = <<>> \/ level >= max_levels
    /\ pc' = "cat_done"
    /\ UNCHANGED <<attempts, catVars, nonCatVars>>

CatNext ==
    \/ CreateRoot
    \/ LeaveSubLoop
    \/ SubcatNameCollides
    \/ CreateSubcat
    \/ LeaveSubsubLoop
    \/ SubsubNameCollides
    \/ CreateSubsub
    \/ InsertRootCategories
    \/ InsertLevel
    \/ LeaveLevelLoop

(***************************************************************************)
(* Currency stage, exchange rates (currency.py 58-145).                    *)
(*                                                                         *)
(* The code computes in floating point and stores round(rate, 6).  Here a  *)
(* rate of the walk is an integer number of half millionths (Scale to the  *)
(* unit), so that rounding to six decimals is a real step; a stored rate   *)
(* is an integer number of millionths.  A relative change is an integer    *)
(* number of ten-thousandths.  Products and quotients are split so that    *)
(* no intermediate value leaves the 32-bit range.                          *)
(***************************************************************************)

\* half millionths per unit
Scale == 2000000

\* currency.py 63-82: two of the 18 pairs, rates in half millionths
base_rates ==
    << [from |-> "USD", to |-> "EUR", rate |-> 1700000],
       [from |-> "USD", to |-> "INR", rate |-> 150000000] >>

\* currency.py 98: np.random.normal(0, 0.003), in ten-thousandths: no
\* change, one standard deviation either way, and the far tails
Shocks == {-10000, -30, 0, 30, 10000}

\* currency.py 99: mean_reversion * (base_rate - current), in ten-thousandths
mean_reversion_force(base_rate, current) == (base_rate - current) \div 4000

\* x * g / 10000 for a rate x and a relative change g in ten-thousandths
Scaled(x, g) == (x \div 10000) * g + ((x % 10000) * g) \div 10000

\* currency.py 101: current * (1 + random_change + mean_reversion_force)
RawRate(base_rate, current, random_change) ==
    current + Scaled(current, random_change + mean_reversion_force(base_rate, current))

\* currency.py 105-106
min_rate(base_rate) == base_rate \div 2
max_rate_double(base_rate) == base_rate * 2
max_rate(base_rate) == base_rate + base_rate \div 2

\* currency.py 112, 121: max(0.000001, min(x, limit)) for a limit of
\* `whole` units
AbsClamp(x, whole) ==
    IF x < 2 THEN 2
    ELSE IF x \div Scale >= whole THEN whole * Scale
    ELSE x

\* currency.py 107-112: both clamps
ClampedRate(base_rate, x) ==
    AbsClamp(Max(min_rate(base_rate), Min(x, max_rate(base_rate))), 100000)

\* round(x, 6): half millionths to millionths, a half goes to the even side
Round6(x) ==
    IF x % 2 = 0 THEN x \div 2
    ELSE IF (x \div 2) % 2 = 0 THEN x \div 2 ELSE x \div 2 + 1

\* One step of the long division of `left` * m by x: quotient and remainder
\* so far are qr[1] and qr[2].
DivStep(qr, m, x) == <<qr[1] * m + (qr[2] * m) \div x, (qr[2] * m) % x>>

\* currency.py 119: 1.0 / new_rate, i.e. Scale * Scale / x in half
\* millionths; Scale * Scale = 2000000000 * 2 * 2 * 2 * 2 * 5 * 5 * 5
Reciprocal(x) ==
    LET s0 == <<2000000000 \div x, 2000000000 % x>>
        s1 == DivStep(s0, 2, x)
        s2 == DivStep(s1, 2, x)
        s3 == DivStep(s2, 2, x)
        s4 == DivStep(s3, 2, x)
        s5 == DivStep(s4, 5, x)
        s6 == DivStep(s5, 5, x)
        s7 == DivStep(s6, 5, x)
    IN  s7[1]

\* currency.py 115: the forward row
ForwardRow(p, new_rate, day) ==
    [pair |-> p, forward |-> TRUE, rate |-> Round6(new_rate), date |-> day]

\* currency.py 118-122: the reverse row, if the rate is above 0.000001
ReverseRows(p, new_rate, day) ==
    IF new_rate > 2
    THEN <<[pair |-> p, forward |-> FALSE,
            rate |-> Round6(AbsClamp(Reciprocal(new_rate), 1000000)),
            date |-> day]>>
    ELSE <<>>

\* currency.py 134: exchange_rates = [] after the batch insert
BufferKeptAfterFlush(rows) == rows
BufferAfterFlush(rows) == <<>>

\* INSERT ... ON CONFLICT (from_currency, to_currency, effective_date) DO NOTHING
RECURSIVE InsertRates(_, _)
InsertRates(table, rows) ==
    IF rows = <<>> THEN table
    ELSE LET r == Head(rows)
             clash == \E i \in DOMAIN table :
                         /\ table[i].pair = r.pair
                         /\ table[i].forward = r.forward
                         /\ table[i].date = r.date
         IN  InsertRates(IF clash THEN table ELSE Append(table, r), Tail(rows))

FxIdle ==
    /\ cfg_days = 0
    /\ current_date = 1
    /\ pair_idx = 1
    /\ current_rates = <<>>
    /\ exchange_rates = <<>>
    /\ db_exchange_rates = <<>>

\* currency.py 85-90
FxEntry ==
    /\ pc = "fx_walk"
    /\ attempts = 0
    /\ territories = <<>>
    /\ products = <<>>
    /\ cfg_days \in 1 .. MaxDays
    /\ current_date = 1
    /\ pair_idx = 1
    /\ current_rates = [p \in DOMAIN base_rates |-> base_rates[p].rate]
    /\ exchange_rates = <<>>
    /\ db_exchange_rates = <<>>

\* currency.py 93-122: one pair on one day.
WalkStep ==
    /\ pc = "fx_walk"
    /\ current_date <= cfg_days
    /\ pair_idx <= Len(base_rates)
    /\ \E random_change \in Shocks :
          LET base_rate == base_rates[pair_idx].rate
              new_rate == ClampedRate(base_rate,
                              RawRate(base_rate, current_rates[pair_idx],
                                      random_change))
          IN  /\ current_rates' = [current_rates EXCEPT ![pair_idx] = new_rate]
              /\ exchange_rates' =
                    Append(exchange_rates,
                           ForwardRow(pair_idx, new_rate, current_date))
                    \o ReverseRows(pair_idx, new_rate, current_date)
    /\ pair_idx' = pair_idx + 1
    /\ UNCHANGED <<pc, cfg_days, current_date, db_exchange_rates, nonFxVars>>

\* currency.py 124-134: the day is over; flush a full buffer.
NextDay ==
    /\ pc = "fx_walk"
    /\ current_date <= cfg_days
    /\ pair_idx > Len(base_rates)
    /\ current_date' = current_date + 1
    /\ pair_idx' = 1
    /\ IF Len(exchange_rates) >= flush_threshold
       THEN /\ db_exchange_rates' = InsertRates(db_exchange_rates, exchange_rates)
            /\ exchange_rates' = BufferAfterFlush(exchange_rates)
       ELSE UNCHANGED <<exchange_rates, db_exchange_rates>>
    /\ UNCHANGED <<pc, cfg_days, current_rates, nonFxVars>>

\* currency.py 136-145: insert what is left, commit.
InsertRemainingRates ==
    /\ pc = "fx_walk"
    /\ current_date > cfg_days
    /\ db_exchange_rates' = InsertRates(db_exchange_rates, exchange_rates)
    /\ pc' = "fx_done"
    /\ UNCHANGED <<cfg_days, current_date, pair_idx, current_rates,
                   exchange_rates, nonFxVars>>

FxNext ==
    \/ WalkStep
    \/ NextDay
    \/ InsertRemainingRates

(***************************************************************************)
(* Inventory stage: generate_inventory_data (inventory.py 9-134).          *)
(***************************************************************************)
nonInvVars == <<attempts, territories, products, hrVars, geoVars, supVars, poVars,
                prodVars, custVars, catVars, salVars, fxVars, refVars, runVars>>

\* inventory.py 21-22
products_with_ids == SelectSeq(products, LAMBDA pr : pr.real_id # NULL)
territories_with_ids == SelectSeq(territories, LAMBDA t : t.id # NULL)

\* inventory.py 37: random.randint(10, 500)
BaseStocks == 10 .. 500

\* inventory.py 40: random.uniform(0.5, 2.0), in hundredths: both ends and
\* values between
DemandFactors == {50, 75, 100, 133, 199, 200}


\* inventory.py 41: int(base_stock * demand_factor)
QuantityOnHand(base_stock, demand_factor) == (base_stock * demand_factor) \div 100

\* inventory.py 44: the largest reserved quantity
MaxReservedAll(quantity_on_hand) == quantity_on_hand
MaxReserved(quantity_on_hand) == quantity_on_hand \div 3

\* inventory.py 50
max_reorder(base_stock) == Max(6, base_stock \div 3)

\* inventory.py 52
max_stock_level(base_stock) == base_stock * 2

\* inventory.py 74-82: INSERT ... ON CONFLICT (product_id, territory_id) DO NOTHING
RECURSIVE InsertInventory(_, _)
InsertInventory(table, rows) ==
    IF rows = <<>> THEN table
    ELSE LET r == Head(rows)
             clash == \E i \in DOMAIN table :
                         /\ table[i].product_id = r.product_id
                         /\ table[i].territory_id = r.territory_id
         IN  InsertInventory(IF clash THEN table ELSE Append(table, r), Tail(rows))

\* str(n) for an integer n >= 0, one character per element
RECURSIVE IntToStr(_)
IntToStr(n) ==
    LET digit == SubSeq(<<"0", "1", "2", "3", "4", "5", "6", "7", "8", "9">>,
                        (n % 10) + 1, (n % 10) + 1)
    IN  IF n < 10 THEN digit ELSE IntToStr(n \div 10) \o digit

\* `needle in text` for strings given character by character
Contains(text, needle) ==
    \E i \in 0 .. Len(text) - Len(needle) :
        SubSeq(text, i + 1, i + Len(needle)) = needle

\* inventory.py 94-95: employees with a real id whose str(role_id)
\* contains 'Sales'
sales_employees ==
    SelectSeq(employees,
              LAMBDA e : /\ e.real_id # NULL
                         /\ Contains(IntToStr(e.role_id), <<"S", "a", "l", "e", "s">>))

\* inventory.py 97-115: two targets per employee, for end_date.year (0) and
\* the year after (1)
RECURSIVE SalesTargets(_)
SalesTargets(emps) ==
    IF emps = <<>> THEN <<>>
    ELSE << [employee_id |-> Head(emps).real_id, territory_id |-> NULL,
             target_year |-> 0],
            [employee_id |-> Head(emps).real_id, territory_id |-> NULL,
             target_year |-> 1] >>
         \o SalesTargets(Tail(emps))

\* The employees cache the HR stage leaves behind: a CEO, a Sales Manager
\* and a Sales Representative, role ids as the roles table numbers them
\* (init_database.py 328-335).
InvEmployees ==
    << [id |-> 1, role |-> "ceo", role_id |-> 1, territory_id |-> 1, real_id |-> 1],
       [id |-> 2, role |-> "manager", role_id |-> 2, territory_id |-> 1, real_id |-> 2],
       [id |-> 3, role |-> "staff", role_id |-> 3, territory_id |-> 1, real_id |-> 3] >>

InvIdle ==
    /\ inv_t = 1
    /\ territory_products = <<>>
    /\ inventory_records = <<>>
    /\ db_inventory = <<>>
    /\ db_sales_targets = <<>>

\* inventory.py 21-24
InvEntry ==
    /\ pc = "inv_territory"
    /\ attempts = 0
    /\ territories \in OneTerritoryCaches
    /\ products \in ResolvedProducts(MaxProducts)
    /\ employees = InvEmployees
    /\ inv_t = 1
    /\ territory_products = <<>>
    /\ inventory_records = <<>>
    /\ db_inventory = <<>>
    /\ db_sales_targets = <<>>

\* inventory.py 26-33: the next territory and its sample of products
InvChooseProducts ==
    /\ pc = "inv_territory"
    /\ inv_t <= Len(territories_with_ids)
    /\ \E num_products \in Len(products_with_ids) \div 4 ..
                           Len(products_with_ids) \div 2 :
          \E sample \in Samples(products_with_ids, num_products) :
              territory_products' = sample
    /\ pc' = "inv_products"
    /\ UNCHANGED <<inv_t, inventory_records, db_inventory, db_sales_targets,
                   nonInvVars>>

\* inventory.py 35-64: one inventory record
InvCreateRecord ==
    /\ pc = "inv_products"
    /\ territory_products # <<>>
    /\ \E base_stock \in BaseStocks, demand_factor \in DemandFactors :
          LET quantity_on_hand == QuantityOnHand(base_stock, demand_factor)
          IN  \E quantity_reserved \in EndsOf(0, MaxReserved(quantity_on_hand)),
                 quantity_on_order \in EndsOf(0, base_stock),
                 reorder_level \in EndsOf(5, max_reorder(base_stock)) :
                 inventory_records' =
                     Append(inventory_records,
                            [product_id |-> products_with_ids[Head(territory_products)].real_id,
                             territory_id |-> territories_with_ids[inv_t].id,
                             quantity_on_hand |-> quantity_on_hand,
                             quantity_on_order |-> quantity_on_order,
                             quantity_reserved |-> quantity_reserved,
                             reorder_level |-> reorder_level,
                             max_stock_level |-> max_stock_level(base_stock)])
    /\ territory_products' = Tail(territory_products)
    /\ UNCHANGED <<pc, inv_t, db_inventory, db_sales_targets, nonInvVars>>

\* inventory.py 26, 35: the sample is used up, on to the next territory
InvNextTerritory ==
    /\ pc = "inv_products"
    /\ territory_products = <<>>
    /\ inv_t' = inv_t + 1
    /\ pc' = "inv_territory"
    /\ UNCHANGED <<territory_products, inventory_records, db_inventory,
                   db_sales_targets, nonInvVars>>

\* inventory.py 66-134: insert the inventory and the sales targets, commit
InvInsert ==
    /\ pc = "inv_territory"
    /\ inv_t > Len(territories_with_ids)
    /\ db_inventory' = InsertInventory(db_inventory, inventory_records)
    /\ db_sales_targets' = db_sales_targets \o SalesTargets(sales_employees)
    /\ pc' = "inv_done"
    /\ UNCHANGED <<inv_t, territory_products, inventory_records, nonInvVars>>

InvNext ==
    \/ InvChooseProducts
    \/ InvCreateRecord
    \/ InvNextTerritory
    \/ InvInsert

(***************************************************************************)
(* Reference data: DatabaseInitializer.populate_reference_data             *)
(* (init_database.py 246-345).  A row is its conflict key and the rest of  *)
(* its columns; the surrogate id the store adds is left out.               *)
(***************************************************************************)
\* init_database.py 255-266
currencies_data ==
    << [key |-> "USD", rest |-> "US Dollar"],
       [key |-> "EUR", rest |-> "Euro"],
       [key |-> "GBP", rest |-> "British Pound"] >>

\* init_database.py 275-287
countries_data ==
    << [key |-> "United States", rest |-> "USA"],
       [key |-> "United Kingdom", rest |-> "GBR"],
       [key |-> "Germany", rest |-> "DEU"] >>

\* init_database.py 296-302
tax_types_data ==
    << [key |-> "VAT", rest |-> "Value Added Tax"],
       [key |-> "SALES_TAX", rest |-> "Sales Tax"],
       [key |-> "GST", rest |-> "Goods and Services Tax"] >>

\* init_database.py 311-319
cost_types_data ==
    << [key |-> "PURCHASE", rest |-> "Product Purchase Cost"],
       [key |-> "TRANSPORT", rest |-> "Transportation Cost"],
       [key |-> "DUTIES", rest |-> "Import Duties"] >>

\* init_database.py 328-337
roles_data ==
    << [key |-> "CEO", rest |-> "Chief Executive Officer"],
       [key |-> "Sales Manager", rest |-> "Sales Team Manager"],
       [key |-> "Sales Representative", rest |-> "Sales Representative"] >>

reference_data ==
    [currencies |-> SubSeq(currencies_data, 1, MaxRefRows),
     countries |-> SubSeq(countries_data, 1, MaxRefRows),
     tax_types |-> SubSeq(tax_types_data, 1, MaxRefRows),
     cost_types |-> SubSeq(cost_types_data, 1, MaxRefRows),
     roles |-> SubSeq(roles_data, 1, MaxRefRows)]

ReferenceTables == DOMAIN reference_data

\* cursor.executemany of INSERT INTO ... VALUES ...: every row is added
RECURSIVE InsertEach(_, _)
InsertEach(table, rows) ==
    IF rows = <<>> THEN table ELSE InsertEach(Append(table, Head(rows)), Tail(rows))

\* cursor.executemany of INSERT ... ON CONFLICT (key) DO NOTHING
\* (init_database.py 268-272, 289-293, 304-308, 321-325, 339-343)
RECURSIVE InsertIfAbsent(_, _)
InsertIfAbsent(table, rows) ==
    IF rows = <<>> THEN table
    ELSE LET r == Head(rows)
             clash == \E i \in DOMAIN table : table[i].key = r.key
         IN  InsertIfAbsent(IF clash THEN table ELSE Append(table, r), Tail(rows))

\* What a table of the list `data` can hold before the first run: any of
\* the rows, the first one possibly with other columns than the list has.
RECURSIVE Prefilled(_)
Prefilled(data) ==
    IF data = <<>> THEN {<<>>}
    ELSE LET last == data[Len(data)]
             rows == IF Len(data) = 1
                     THEN {last, [last EXCEPT !.rest = "other"]}
                     ELSE {last}
         IN  Prefilled(SubSeq(data, 1, Len(data) - 1))
             \cup { Append(t, r) : t \in Prefilled(SubSeq(data, 1, Len(data) - 1)),
                                   r \in rows }

nonRefVars == <<attempts, territories, products, hrVars, geoVars, supVars, poVars,
                prodVars, custVars, catVars, salVars, fxVars, invVars, runVars>>

RefIdle ==
    /\ db_reference = [t \in ReferenceTables |-> <<>>]
    /\ ref_runs = 0
    /\ ref_first = [t \in ReferenceTables |-> <<>>]

RefEntry ==
    /\ pc = "ref"
    /\ attempts = 0
    /\ territories = <<>>
    /\ products = <<>>
    /\ \E cu \in Prefilled(reference_data.currencies),
          co \in Prefilled(reference_data.countries),
          tt \in Prefilled(reference_data.tax_types),
          ct \in Prefilled(reference_data.cost_types),
          ro \in Prefilled(reference_data.roles) :
          db_reference = [currencies |-> cu, countries |-> co, tax_types |-> tt,
                          cost_types |-> ct, roles |-> ro]
    /\ ref_runs = 0
    /\ ref_first = [t \in ReferenceTables |-> <<>>]

\* init_database.py 246-345: one run, committed at line 345
PopulateReferenceData ==
    /\ pc = "ref"
    /\ ref_runs < MaxRefRuns
    /\ db_reference' = [t \in ReferenceTables |->
                           InsertIfAbsent(db_reference[t], reference_data[t])]
    /\ ref_runs' = ref_runs + 1
    /\ ref_first' = IF ref_runs = 0 THEN db_reference' ELSE ref_first
    /\ UNCHANGED <<pc, nonRefVars>>

RefNext == PopulateReferenceData

(***************************************************************************)
(* A run: main and SalesDataGenerator.generate_all_data                    *)
(* (generate_data.py 2325-2384, 2387-2625).                                *)
(*                                                                         *)
(* A stage is the sequence of its store operations, cache updates, tests   *)
(* of the cache and commits, in source order.  Rows are told apart by the  *)
(* stage that wrote them and their table.  All writes of one connection    *)
(* since its last commit form the open transaction `pending`.              *)
(***************************************************************************)
nonRunVars == <<attempts, territories, products, hrVars, geoVars, supVars, poVars,
                prodVars, custVars, catVars, salVars, fxVars, invVars, refVars>>

\* generate_data.py 2340-2350
all_generators ==
    <<"currency", "geographic", "tax", "hr", "products", "suppliers",
      "customers", "sales", "inventory">>

Commit == [op |-> "commit", arg |-> ""]
Write(table) == [op |-> "write", arg |-> table]
\* random.choice over a kind of cache entries: IndexError when there is none
Choice(kind) == [op |-> "choice", arg |-> kind]
\* `if not <entries with real ids>: return`
Need(kind) == [op |-> "need", arg |-> kind]
\* `if not addresses: return`, over the rows of a table
NeedRows(table) == [op |-> "need_rows", arg |-> table]
\* the stage resolves the real ids of a kind of entity in the cache
Cache(kind) == [op |-> "cache", arg |-> kind]
\* supplier.py 383-388: po['total_cost'] of a purchase order that has none
ReadTotalCost == [op |-> "read_total_cost", arg |-> ""]

\* The stage functions.  Each starts by resetting its sequences and
\* committing (lines 14-23 of every generator).
Program(name) ==
    CASE name = "currency" ->      \* currency.py 10-145
           <<Commit, Write("currencies"), Write("exchange_rates"), Commit>>
      [] name = "geographic" ->    \* geographic.py 9-189
           <<Commit, Write("countries"), Write("territories"),
             Cache("territories"), Commit>>
      [] name = "tax" ->           \* tax.py 9-84
           <<Commit, Write("tax_types"), Write("tax_rates"), Commit>>
      [] name = "hr" ->            \* hr.py 11-295
           <<Commit, Write("roles"), Choice("territories"), Write("employees"),
             Cache("employees"), Commit>>
      [] name = "products" ->      \* product.py 10-371
           <<Commit, Write("product_categories"), Write("products"),
             Cache("products"), Write("product_prices"), Write("product_costs"),
             Commit>>
      [] name = "suppliers" ->     \* supplier.py 10-238 and 240-440
           <<Commit, Choice("territories"), Write("addresses"),
             Write("suppliers"), Cache("suppliers"), Need("products"),
             Write("product_suppliers"), Commit,
             Need("employees"), Need("suppliers"), ReadTotalCost,
             Write("purchase_orders"), Write("purchase_order_details"),
             Write("purchase_order_line_costs"), Commit>>
      [] name = "customers" ->     \* customer.py 9-205
           <<Commit, Choice("territories"), Write("addresses"),
             Write("customers"), Cache("customers"),
             Write("customer_addresses"), Write("shipping_methods"), Commit>>
      [] name = "sales" ->         \* sales.py 11-339
           <<Commit, Need("customers"), Need("employees"), Need("products"),
             NeedRows("addresses"), Write("orders"), Write("order_details"),
             Commit>>
      [] OTHER ->                  \* inventory.py 9-134
           <<Commit, Write("inventory"), Commit>>

\* generate_data.py 2353-2356: the generators whose name is in the list,
\* in the order of all_generators
FilterListedOrder(list, only) ==
    IF only = <<>> THEN list ELSE only
Filter(list, only) ==
    IF only = <<>> THEN list
    ELSE SelectSeq(list, LAMBDA name : \E i \in DOMAIN only : only[i] = name)

\* main, 2493-2501: the lists --only can name: stages, none twice
OnlyLists ==
    {<<>>} \cup
    {sq \in UNION {[1 .. n -> Range(all_generators)] : n \in 1 .. MaxOnly} :
        \A i, j \in DOMAIN sq : i # j => sq[i] # sq[j]}

\* generate_data.py 2364-2366, 2380-2382: where a raising stage leads
AfterRaiseRetry == "run_next"
AfterRaise == "run_finally"

\* generate_data.py 2368-2378: the return value after validation
GenerationResultStrict(all_valid) == IF all_valid THEN "true" ELSE "false"
GenerationResult(all_valid) == "true"

\* main, 2557: the exit code after the prompt was declined
DeclinedExitCode == 0

CurrentStage == generators[stage_idx]
CurrentOp == Program(CurrentStage)[op_idx]
InStage(kind) ==
    /\ pc = "run_stage"
    /\ op_idx <= Len(Program(CurrentStage))
    /\ CurrentOp.op = kind

RunIdle ==
    /\ tables_to_generate = <<>>
    /\ clear_existing = FALSE
    /\ conn = FALSE
    /\ generators = <<>>
    /\ stage_idx = 1
    /\ op_idx = 1
    /\ executed = <<>>
    /\ cached = {}
    /\ pending = {}
    /\ committed = {}
    /\ raised = "none"
    /\ raise_cause = "none"
    /\ kept = {}
    /\ validated = "none"
    /\ result = "none"
    /\ cancelled = "none"
    /\ exit_code = -1

\* main, 2452-2454: the arguments are parsed; the store may hold rows of
\* an earlier run.
RunEntry ==
    /\ pc = "cli_args"
    /\ attempts = 0
    /\ territories = <<>>
    /\ products = <<>>
    /\ tables_to_generate = <<>>
    /\ clear_existing = FALSE
    /\ conn = FALSE
    /\ generators = <<>>
    /\ stage_idx = 1
    /\ op_idx = 1
    /\ executed = <<>>
    /\ cached = {}
    /\ pending = {}
    /\ committed \in {{}, {<<"earlier", "addresses">>}}
    /\ raised = "none"
    /\ raise_cause = "none"
    /\ kept = {}
    /\ validated = "none"
    /\ result = "none"
    /\ cancelled = "none"
    /\ exit_code = -1

Exit(code) ==
    /\ exit_code' = code
    /\ pc' = "cli_exit"

\* main, 2482-2490 and 2494-2501: a malformed --date-range or an unknown
\* name in --only
CliRejectsArguments ==
    /\ pc = "cli_args"
    /\ Exit(1)
    /\ UNCHANGED <<tables_to_generate, clear_existing, conn, generators,
                   stage_idx, op_idx, executed, cached, pending, committed,
                   raised, raise_cause, kept, validated, result, cancelled,
                   nonRunVars>>

\* main, 2456-2527: configuration, --only and --clear-existing are taken
CliConfigure ==
    /\ pc = "cli_args"
    /\ tables_to_generate' \in OnlyLists
    /\ clear_existing' \in BOOLEAN
    /\ pc' = "cli_mode"
    /\ UNCHANGED <<conn, generators, stage_idx, op_idx, executed, cached,
                   pending, committed, raised, raise_cause, kept, validated,
                   result, cancelled, exit_code, nonRunVars>>

\* main, 2529-2544: --validate-only
CliValidateOnly ==
    /\ pc = "cli_mode"
    /\ \E connected \in BOOLEAN, all_valid \in BOOLEAN :
          /\ validated' = IF ~connected THEN "none"
                          ELSE IF all_valid THEN "clear" ELSE "issues"
          /\ Exit(IF connected /\ all_valid THEN 0 ELSE 1)
    /\ UNCHANGED <<tables_to_generate, clear_existing, conn, generators,
                   stage_idx, op_idx, executed, cached, pending, committed,
                   raised, raise_cause, kept, result, cancelled, nonRunVars>>

\* main, 2553-2557: the large-dataset prompt is answered with no
CliDeclined ==
    /\ pc = "cli_mode"
    /\ cancelled' = "declined"
    /\ Exit(DeclinedExitCode)
    /\ UNCHANGED <<tables_to_generate, clear_existing, conn, generators,
                   stage_idx, op_idx, executed, cached, pending, committed,
                   raised, raise_cause, kept, validated, result, nonRunVars>>

\* main, 2553-2561: no prompt, or the prompt is answered with yes
CliGenerate ==
    /\ pc = "cli_mode"
    /\ pc' = "run_connect"
    /\ UNCHANGED <<runVars, nonRunVars>>

\* main, 2620-2622: KeyboardInterrupt while main runs; an open connection
\* is closed on the way out (2383-2384), its transaction is lost
CliInterrupted ==
    /\ pc \in {"cli_mode", "run_connect", "run_clear", "run_filter", "run_next",
               "run_stage", "run_finally", "cli_result"}
    /\ cancelled' = "interrupt"
    /\ conn' = FALSE
    /\ pending' = {}
    /\ Exit(1)
    /\ UNCHANGED <<tables_to_generate, clear_existing, generators, stage_idx,
                   op_idx, executed, cached, committed, raised, raise_cause,
                   kept, validated, result, nonRunVars>>

\* generate_data.py 2332, 221-235
ConnectDatabase ==
    /\ pc = "run_connect"
    /\ conn' = TRUE
    /\ pc' = IF clear_existing THEN "run_clear" ELSE "run_filter"
    /\ UNCHANGED <<tables_to_generate, clear_existing, generators, stage_idx,
                   op_idx, executed, cached, pending, committed, raised,
                   raise_cause, kept, validated, result, cancelled, exit_code,
                   nonRunVars>>

\* generate_data.py 2332-2333, 237-239: return False
ConnectDatabaseFails ==
    /\ pc = "run_connect"
    /\ result' = "false"
    /\ pc' = "run_finally"
    /\ UNCHANGED <<tables_to_generate, clear_existing, conn, generators,
                   stage_idx, op_idx, executed, cached, pending, committed,
                   raised, raise_cause, kept, validated, cancelled, exit_code,
                   nonRunVars>>

\* generate_data.py 2335-2336, 249-271: every table is emptied, or kept
\* when its DELETE fails
ClearExistingData ==
    /\ pc = "run_clear"
    /\ committed' \in SUBSET committed
    /\ pc' = "run_filter"
    /\ UNCHANGED <<tables_to_generate, clear_existing, conn, generators,
                   stage_idx, op_idx, executed, cached, pending, raised,
                   raise_cause, kept, validated, result, cancelled, exit_code,
                   nonRunVars>>

\* generate_data.py 2340-2356
FilterGenerators ==
    /\ pc = "run_filter"
    /\ generators' = Filter(all_generators, tables_to_generate)
    /\ stage_idx' = 1
    /\ pc' = "run_next"
    /\ UNCHANGED <<tables_to_generate, clear_existing, conn, op_idx, executed,
                   cached, pending, committed, raised, raise_cause, kept,
                   validated, result, cancelled, exit_code, nonRunVars>>

\* generate_data.py 2359-2362: the next generator is called
StartStage ==
    /\ pc = "run_next"
    /\ stage_idx <= Len(generators)
    /\ executed' = Append(executed, generators[stage_idx])
    /\ op_idx' = 1
    /\ pc' = "run_stage"
    /\ UNCHANGED <<tables_to_generate, clear_existing, conn, generators,
                   stage_idx, cached, pending, committed, raised, raise_cause,
                   kept, validated, result, cancelled, exit_code, nonRunVars>>

\* The stage goes on with its next operation.
StageAdvances ==
    /\ op_idx' = op_idx + 1
    /\ UNCHANGED <<pc, tables_to_generate, clear_existing, conn, generators,
                   stage_idx, executed, raised, raise_cause, kept, validated,
                   result, cancelled, exit_code, nonRunVars>>

\* The stage function returns: generate_data.py 2363, on to the next one.
StageReturn ==
    /\ stage_idx' = stage_idx + 1
    /\ pc' = "run_next"
    /\ UNCHANGED <<tables_to_generate, clear_existing, conn, generators, op_idx,
                   executed, cached, pending, committed, raised, raise_cause,
                   kept, validated, result, cancelled, exit_code, nonRunVars>>

\* The stage function raises: generate_data.py 2364-2366 re-raises,
\* 2380-2382 returns False.
StageRaise(cause) ==
    /\ raised' = CurrentStage
    /\ raise_cause' = cause
    /\ kept' = committed
    /\ result' = "false"
    /\ pc' = AfterRaise
    /\ UNCHANGED <<tables_to_generate, clear_existing, conn, generators,
                   stage_idx, op_idx, executed, cached, pending, committed,
                   validated, cancelled, exit_code, nonRunVars>>

\* self.conn.commit()
StageCommit ==
    /\ InStage("commit")
    /\ committed' = committed \cup pending
    /\ pending' = {}
    /\ cached' = cached
    /\ StageAdvances

\* execute_batch / cursor.execute of an INSERT
StageWrite ==
    /\ InStage("write")
    /\ pending' = pending \cup {<<CurrentStage, CurrentOp.arg>>}
    /\ UNCHANGED <<cached, committed>>
    /\ StageAdvances

\* the store rejects the INSERT
StageWriteFails ==
    /\ InStage("write")
    /\ StageRaise("store")

\* the cache entries of the kind carry their real ids from here on
StageCache ==
    /\ InStage("cache")
    /\ cached' = cached \cup {CurrentOp.arg}
    /\ UNCHANGED <<pending, committed>>
    /\ StageAdvances

\* random.choice(list(self.cache[kind].values())) of a cache that has some
StageChoice ==
    /\ InStage("choice")
    /\ CurrentOp.arg \in cached
    /\ UNCHANGED <<cached, pending, committed>>
    /\ StageAdvances

\* random.choice of an empty list: IndexError (hr.py 59, supplier.py 32,
\* customer.py 30)
StageChoiceRaises ==
    /\ InStage("choice")
    /\ CurrentOp.arg \notin cached
    /\ StageRaise("empty_upstream")

\* the entities the stage needs are there
StageNeedMet ==
    /\ \/ InStage("need") /\ CurrentOp.arg \in cached
       \/ /\ InStage("need_rows")
          /\ \E r \in pending \cup committed : r[2] = CurrentOp.arg
    /\ UNCHANGED <<cached, pending, committed>>
    /\ StageAdvances

\* they are not: the stage logs and returns (supplier.py 155-161, 246-254,
\* sales.py 32-40, 65-67)
StageNeedUnmet ==
    /\ \/ InStage("need") /\ CurrentOp.arg \notin cached
       \/ /\ InStage("need_rows")
          /\ ~\E r \in pending \cup committed : r[2] = CurrentOp.arg
    /\ StageReturn

\* supplier.py 383-388: every purchase order has its total_cost
StageReadTotalCost ==
    /\ InStage("read_total_cost")
    /\ UNCHANGED <<cached, pending, committed>>
    /\ StageAdvances

\* supplier.py 321-337, 383-388: a purchase order was appended and then
\* skipped, it has no total_cost: KeyError
StageReadTotalCostRaises ==
    /\ InStage("read_total_cost")
    /\ StageRaise("key_error")

\* the stage function reaches its end
StageEnds ==
    /\ pc = "run_stage"
    /\ op_idx > Len(Program(CurrentStage))
    /\ StageReturn

\* generate_data.py 2368-2378: validation, then return True
ValidateDataIntegrity ==
    /\ pc = "run_next"
    /\ stage_idx > Len(generators)
    /\ \E all_valid \in BOOLEAN :
          /\ validated' = IF all_valid THEN "clear" ELSE "issues"
          /\ result' = GenerationResult(all_valid)
    /\ pc' = "run_finally"
    /\ UNCHANGED <<tables_to_generate, clear_existing, conn, generators,
                   stage_idx, op_idx, executed, cached, pending, committed,
                   raised, raise_cause, kept, cancelled, exit_code, nonRunVars>>

\* generate_data.py 2383-2384, 241-247: the connection is closed, its open
\* transaction is lost
DisconnectDatabase ==
    /\ pc = "run_finally"
    /\ conn' = FALSE
    /\ pending' = {}
    /\ pc' = "cli_result"
    /\ UNCHANGED <<tables_to_generate, clear_existing, generators, stage_idx,
                   op_idx, executed, cached, committed, raised, raise_cause,
                   kept, validated, result, cancelled, exit_code, nonRunVars>>

\* main, 2566-2618: success falls off the end of main, failure exits with 1
CliReports ==
    /\ pc = "cli_result"
    /\ Exit(IF result = "true" THEN 0 ELSE 1)
    /\ UNCHANGED <<tables_to_generate, clear_existing, conn, generators,
                   stage_idx, op_idx, executed, cached, pending, committed,
                   raised, raise_cause, kept, validated, result, cancelled,
                   nonRunVars>>

RunNext ==
    \/ CliRejectsArguments
    \/ CliConfigure
    \/ CliValidateOnly
    \/ CliDeclined
    \/ CliGenerate
    \/ CliInterrupted
    \/ ConnectDatabase
    \/ ConnectDatabaseFails
    \/ ClearExistingData
    \/ FilterGenerators
    \/ StartStage
    \/ StageCommit
    \/ StageWrite
    \/ StageWriteFails
    \/ StageCache
    \/ StageChoice
    \/ StageChoiceRaises
    \/ StageNeedMet
    \/ StageNeedUnmet
    \/ StageReadTotalCost
    \/ StageReadTotalCostRaises
    \/ StageEnds
    \/ ValidateDataIntegrity
    \/ DisconnectDatabase
    \/ CliReports

(***************************************************************************)
(* Sales stage: generate_sales_data (sales.py 82-339).  A date is the      *)
(* number of its day in a year of 365 days; of an order the model keeps    *)
(* the date, status, shipping and tracking columns.                        *)
(***************************************************************************)
nonSalVars == <<attempts, territories, products, hrVars, geoVars, supVars, poVars,
                prodVars, custVars, catVars, fxVars, invVars, refVars, runVars>>

\* order_date.month
month_ends == <<31, 59, 90, 120, 151, 181, 212, 243, 273, 304, 334, 365>>
MonthOf(day) == CHOOSE m \in 1 .. 12 :
                   /\ day <= month_ends[m]
                   /\ m > 1 => day > month_ends[m - 1]

\* sales.py 97-106, in hundredths
SeasonalMultiplier(month) ==
    IF month \in {11, 12} THEN 140
    ELSE IF month \in {1, 2} THEN 70
    ELSE IF month \in {6, 7, 8} THEN 80
    ELSE 100

\* random.random(): a value of [0, 1), in two-hundredths; the odd values are
\* the midpoints of the hundred equal parts of the interval.
UniformDraws == {2 * k + 1 : k \in 0 .. 99}

\* sales.py 109: random.random() > seasonal_multiplier
Skips(draw, multiplier) == draw > 2 * multiplier

\* The draws the loop is explored with.
SeasonalDraws == {1, 141, 161, 199}

\* fake_us.date_between(start_date, end_date): the dates explored, in
\* January, July and December.
OrderDates == {10, 190, 340, 341, 342}

\* date.today(): a week after the last dates of OrderDates
Todays == {348, 349}

\* sales.py 209: timedelta(days=7)
settle_days == 7

\* sales.py 209: order_date < date.today() - timedelta(days=7)
IsSettledInclusive(date, now) == date <= now - settle_days
IsSettled(date, now) == date < now - settle_days

\* sales.py 210, 218
StatusDraws(date, now) ==
    IF IsSettled(date, now) THEN {"COMPLETED", "SHIPPED", "CANCELLED"}
    ELSE {"PENDING", "PROCESSING", "APPROVED"}

\* sales.py 211-220: shipped_date
ShippedDate(date, now, status, delay) ==
    IF IsSettled(date, now) /\ status \in {"COMPLETED", "SHIPPED"}
    THEN date + delay
    ELSE NULL

\* sales.py 249: f"TRK{...}" if shipped_date else None
TrackingNumber(shipped_date, number) ==
    IF shipped_date # NULL THEN number ELSE NULL

SalIdle ==
    /\ cfg_sales_orders = 0
    /\ today = 0
    /\ order_num = 1
    /\ order_date = 0
    /\ seasonal_multiplier = 0
    /\ orders = <<>>
    /\ db_orders = <<>>

\* sales.py 78-86: the loop over the candidate orders starts.
SalEntry ==
    /\ pc = "sales_date"
    /\ attempts = 0
    /\ territories \in OneTerritoryCaches
    /\ products = <<>>
    /\ cfg_sales_orders \in 1 .. MaxSalesOrders
    /\ today \in Todays
    /\ order_num = 1
    /\ order_date = 0
    /\ seasonal_multiplier = 0
    /\ orders = <<>>
    /\ db_orders = <<>>

SalAfterCandidate ==
    /\ order_num' = order_num + 1
    /\ pc' = IF order_num + 1 > cfg_sales_orders THEN "sales_insert" ELSE "sales_date"

\* sales.py 93-106: the date of the candidate and its month's multiplier.
SalDrawDate ==
    /\ pc = "sales_date"
    /\ \E d \in OrderDates :
          /\ order_date' = d
          /\ seasonal_multiplier' = SeasonalMultiplier(MonthOf(d))
    /\ pc' = "sales_filter"
    /\ UNCHANGED <<attempts, territories, products, cfg_sales_orders, today,
                   order_num, orders, db_orders, nonSalVars>>

\* sales.py 108-110: the draw exceeds the multiplier, the candidate is dropped.
SalSkipOrder ==
    /\ pc = "sales_filter"
    /\ \E draw \in SeasonalDraws : Skips(draw, seasonal_multiplier)
    /\ SalAfterCandidate
    /\ UNCHANGED <<attempts, territories, products, cfg_sales_orders, today,
                   order_date, seasonal_multiplier, orders, db_orders, nonSalVars>>

\* sales.py 108-255: the candidate is kept and becomes an order.
SalCreateOrder ==
    /\ pc = "sales_filter"
    /\ \E draw \in SeasonalDraws : ~Skips(draw, seasonal_multiplier)
    /\ \E status \in StatusDraws(order_date, today), delay \in EndsOf(1, 7),
          number \in EndsOf(100000000, 999999999) :
          LET shipped_date == ShippedDate(order_date, today, status, delay)
          IN  /\ shipped_date = NULL => delay = 1 /\ number = 100000000
              /\ orders' = Append(orders,
                    [order_num |-> order_num, order_date |-> order_date,
                     status |-> status, shipped_date |-> shipped_date,
                     tracking_number |-> TrackingNumber(shipped_date, number)])
    /\ SalAfterCandidate
    /\ UNCHANGED <<attempts, territories, products, cfg_sales_orders, today,
                   order_date, seasonal_multiplier, db_orders, nonSalVars>>

\* sales.py 263-339: insert the orders and their lines, commit.
SalInsertOrders ==
    /\ pc = "sales_insert"
    /\ db_orders' = db_orders \o orders
    /\ pc' = "sales_done"
    /\ UNCHANGED <<attempts, territories, products, cfg_sales_orders, today,
                   order_num, order_date, seasonal_multiplier, orders, nonSalVars>>

SalNext ==
    \/ SalDrawDate
    \/ SalSkipOrder
    \/ SalCreateOrder
    \/ SalInsertOrders

HRInit == HREntry /\ products = <<>> /\ GeoIdle /\ SupIdle /\ POIdle /\ ProdIdle /\ CustIdle /\ CatIdle /\ FxIdle /\ InvIdle /\ RefIdle /\ RunIdle /\ SalIdle
GeoInit == GeoEntry /\ products = <<>> /\ HRIdle /\ SupIdle /\ POIdle /\ ProdIdle /\ CustIdle /\ CatIdle /\ FxIdle /\ InvIdle /\ RefIdle /\ RunIdle /\ SalIdle
POInit == POEntry /\ HRIdle /\ GeoIdle /\ ProdIdle /\ CustIdle /\ CatIdle /\ FxIdle /\ InvIdle /\ RefIdle /\ RunIdle /\ SalIdle
SupInit == SupEntry /\ HRIdle /\ GeoIdle /\ POIdle /\ ProdIdle /\ CustIdle /\ CatIdle /\ FxIdle /\ InvIdle /\ RefIdle /\ RunIdle /\ SalIdle
RelInit == RelEntry /\ HRIdle /\ GeoIdle /\ POIdle /\ ProdIdle /\ CustIdle /\ CatIdle /\ FxIdle /\ InvIdle /\ RefIdle /\ RunIdle /\ SalIdle
ProdInit == ProdEntry /\ HRIdle /\ GeoIdle /\ SupIdle /\ POIdle /\ CustIdle /\ CatIdle /\ FxIdle /\ InvIdle /\ RefIdle /\ RunIdle /\ SalIdle
CustInit == CustEntry /\ HRIdle /\ GeoIdle /\ SupIdle /\ POIdle /\ ProdIdle /\ CatIdle /\ FxIdle /\ InvIdle /\ RefIdle /\ RunIdle /\ SalIdle
CatInit == CatEntry /\ HRIdle /\ GeoIdle /\ SupIdle /\ POIdle /\ ProdIdle /\ CustIdle /\ FxIdle /\ InvIdle /\ RefIdle /\ RunIdle /\ SalIdle
InvInit == InvEntry /\ HRLocalsIdle /\ GeoIdle /\ SupIdle /\ POIdle /\ ProdIdle /\ CustIdle /\ CatIdle /\ FxIdle /\ RefIdle /\ RunIdle /\ SalIdle
RefInit == RefEntry /\ HRIdle /\ GeoIdle /\ SupIdle /\ POIdle /\ ProdIdle /\ CustIdle /\ CatIdle /\ FxIdle /\ InvIdle /\ RunIdle /\ SalIdle
RunInit == RunEntry /\ HRIdle /\ GeoIdle /\ SupIdle /\ POIdle /\ ProdIdle /\ CustIdle /\ CatIdle /\ FxIdle /\ InvIdle /\ RefIdle /\ SalIdle
SalInit == SalEntry /\ HRIdle /\ GeoIdle /\ SupIdle /\ POIdle /\ ProdIdle /\ CustIdle /\ CatIdle /\ FxIdle /\ InvIdle /\ RefIdle /\ RunIdle
FxInit == FxEntry /\ HRIdle /\ GeoIdle /\ SupIdle /\ POIdle /\ ProdIdle /\ CustIdle /\ CatIdle /\ InvIdle /\ RefIdle /\ RunIdle /\ SalIdle

SpecHR == HRInit /\ [][HRNext]_vars
SpecGeo == GeoInit /\ [][GeoNext]_vars
SpecPO == POInit /\ [][PONext]_vars
SpecSup == SupInit /\ [][SupNext]_vars
SpecRel == RelInit /\ [][RelNext]_vars
SpecCat == CatInit /\ [][CatNext]_vars
SpecFx == FxInit /\ [][FxNext]_vars
SpecInv == InvInit /\ [][InvNext]_vars
SpecRef == RefInit /\ [][RefNext]_vars
SpecRun == RunInit /\ [][RunNext]_vars
SpecCust == CustInit /\ [][CustNext]_vars
SpecSal == SalInit /\ [][SalNext]_vars

\* The stages that build natural keys by the retry-then-suffix loop.
KeysInit == HRInit \/ ProdInit \/ SupInit \/ CustInit
KeysNext == HRNext \/ ProdNext \/ SupNext \/ CustNext
SpecKeys == KeysInit /\ [][KeysNext]_vars

\* The insert pass a row of employees belongs to.
InsertPass(row) == CASE row.role = "ceo" -> 1
                     [] row.role = "manager" -> 2
                     [] OTHER -> 3

\* C2: every non-CEO row of employees carries as manager_id the store-assigned
\* id of a row inserted in the pass before its own: a manager row the CEO's
\* id, a staff row the id of a manager row.
C2_ManagerIdIsEarlierRealId ==
    \A i \in DOMAIN db_employees :
        db_employees[i].role # "ceo" =>
            \E j \in 1 .. (i - 1) :
                /\ db_employees[j].real_id = db_employees[i].manager_id
                /\ InsertPass(db_employees[j]) = InsertPass(db_employees[i]) - 1

\* C2 witness: the stage is over and a staff row is stored whose manager_id
\* is the id of a manager row and differs from that manager's working key.
C2_Witness ==
    /\ pc = "hr_done"
    /\ \E i, j \in DOMAIN db_employees :
          /\ db_employees[i].role = "staff"
          /\ db_employees[j].role = "manager"
          /\ db_employees[i].manager_id = db_employees[j].real_id
          /\ db_employees[j].real_id # employees[j].id

\* C3: once the CEO exists exactly one generated employee has manager_id
\* NULL, the CEO, and so has exactly one stored row; no manager or staff
\* employee has manager_id NULL.
C3_SingleCEO ==
    /\ employees # <<>> =>
          {i \in DOMAIN employees : employees[i].manager_id = NULL} = {1}
    /\ employees # <<>> => employees[1].role = "ceo"
    /\ \A i \in DOMAIN db_employees :
          (db_employees[i].manager_id = NULL) <=> (db_employees[i].role = "ceo")
    /\ pc = "hr_done" =>
          Cardinality({i \in DOMAIN db_employees :
                          db_employees[i].manager_id = NULL}) = 1

\* C3 witness: a finished run that stored a CEO, a manager and a staff row.
C3_Witness ==
    /\ pc = "hr_done"
    /\ {db_employees[i].role : i \in DOMAIN db_employees} = {"ceo", "manager", "staff"}

\* C4: the stage never generates more employees than config.employees.
C4_EmployeeBudget == Len(employees) <= cfg_employees

\* C5: within each country, the territory names generated in one run are
\* pairwise distinct - in the working cache, in the rows to insert and in the
\* stored table - also once the attempt budget is spent and the numbered
\* fallback name is used.
C5_TerritoryNamesDistinct ==
    /\ \A k1, k2 \in DOMAIN territories :
          (k1 # k2 /\ territories[k1].country_id = territories[k2].country_id)
              => territories[k1].name # territories[k2].name
    /\ \A i, j \in DOMAIN db_territories :
          (i # j /\ db_territories[i].country_id = db_territories[j].country_id)
              => db_territories[i].name # db_territories[j].name

C5_Witness ==
    /\ pc = "geo_done"
    /\ \E i, j \in DOMAIN db_territories :
          /\ i # j
          /\ db_territories[i].country_id = db_territories[j].country_id
          /\ db_territories[j].name[3] > 0
          /\ db_territories[i].name[1] = db_territories[j].name[1]
          /\ db_territories[i].name[2] = db_territories[j].name[2]

\* C1: an iteration whose sampled supplier has no product_suppliers row
\* produces no purchase_orders row and no purchase_order_details row, and the
\* stage still completes and inserts the purchase orders of the other
\* iterations.
C1_SkippedIterationLeavesNoRow ==
    /\ pc # "po_failed"
    /\ pc = "po_done" =>
          \A i \in DOMAIN purchase_orders :
             LET po == purchase_orders[i]
                 stored == \E r \in DOMAIN db_purchase_orders :
                              db_purchase_orders[r].po_number = po.po_number
             IN  /\ stored <=> supplier_products([real_id |-> po.supplier_id]) # <<>>
                 /\ ~stored =>
                       \A dt \in DOMAIN po_details :
                          po_details[dt].po_number # po.po_number

\* C7: every product with at least one product_suppliers relationship has
\* exactly one relationship with is_preferred true, and no product has two
\* relationships with the same supplier - in the generated list and in the
\* stored table.
C7_OnePreferredSupplier ==
    \A table \in {product_suppliers, db_product_suppliers} :
       /\ \A i \in DOMAIN table :
             Cardinality({j \in DOMAIN table :
                             /\ table[j].product_id = table[i].product_id
                             /\ table[j].is_preferred}) = 1
       /\ \A i, j \in DOMAIN table :
             (i # j /\ table[i].product_id = table[j].product_id)
                 => table[i].supplier_id # table[j].supplier_id

C7_Witness ==
    /\ pc = "po_loop"
    /\ \E i, j \in DOMAIN db_product_suppliers :
          /\ db_product_suppliers[i].product_id = db_product_suppliers[j].product_id
          /\ db_product_suppliers[i].is_preferred
          /\ ~db_product_suppliers[j].is_preferred

\* C6: the keys built by the retry-then-suffix loop are pairwise distinct
\* within their scope - product SKUs, employee emails, supplier company names
\* and customer company names - in the working lists and in the stored
\* tables, also when all 10 random attempts collide and the suffixed fallback
\* is taken.
C6_NaturalKeysDistinct ==
    /\ \A i, j \in DOMAIN products : i # j => products[i].sku # products[j].sku
    /\ \A i, j \in DOMAIN db_products :
          i # j => db_products[i].sku # db_products[j].sku
    /\ \A i, j \in DOMAIN employees : i # j => employees[i].email # employees[j].email
    /\ \A i, j \in DOMAIN db_employees :
          i # j => db_employees[i].email # db_employees[j].email
    /\ \A i, j \in DOMAIN suppliers :
          i # j => suppliers[i].company_name # suppliers[j].company_name
    /\ \A i, j \in DOMAIN db_suppliers :
          i # j => db_suppliers[i].company_name # db_suppliers[j].company_name
    /\ \A i, j \in DOMAIN customers :
          i # j => customers[i].company_name # customers[j].company_name
    /\ \A i, j \in DOMAIN db_customers :
          i # j => db_customers[i].company_name # db_customers[j].company_name

\* A supplier named by the fallback after ten collisions, next to the
\* supplier that holds the same company name without the suffix.
C6_Witness ==
    /\ pc = "sup_rel"
    /\ \E i, j \in DOMAIN db_suppliers :
          /\ db_suppliers[j].company_name[2] = suppliers[j].id
          /\ db_suppliers[i].company_name[1] = db_suppliers[j].company_name[1]
          /\ db_suppliers[i].company_name[2] = 0

\* The row of the stored parent of row i, 0 if there is none.
ParentRow(i) ==
    LET hits == {j \in DOMAIN db_product_categories :
                    db_product_categories[j].real_id =
                        db_product_categories[i].parent_category}
    IN  IF hits = {} THEN 0 ELSE CHOOSE j \in hits : TRUE

\* Whether name c is name p extended by the parts of one more level.
IsParentName(p, c) ==
    /\ Len(p) < Len(c)
    /\ Len(p) >= Len(c) - 3
    /\ p = SubSeq(c, 1, Len(p))

\* C8: every non-root category is inserted with parent_category equal to the
\* real id of the category it was generated under, and that category was
\* inserted and resolved in a strictly earlier insertion level.
C8_ParentInsertedEarlier ==
    \A i \in DOMAIN db_product_categories :
       Len(db_product_categories[i].name) > 1 =>
          /\ db_product_categories[i].parent_category # NULL
          /\ ParentRow(i) # 0
          /\ db_product_categories[ParentRow(i)].pass < db_product_categories[i].pass
          /\ IsParentName(db_product_categories[ParentRow(i)].name,
                          db_product_categories[i].name)

C8_Witness ==
    /\ pc = "cat_done"
    /\ \E i \in DOMAIN db_product_categories :
          /\ db_product_categories[i].pass = 2
          /\ ParentRow(i) # 0
          /\ db_product_categories[ParentRow(i)].pass = 1
          /\ \E c \in DOMAIN categories :
                /\ categories[c].real_id = db_product_categories[i].parent_category
                /\ categories[c].id # categories[c].real_id

\* Number of categories on the parent chain of the category at position i of
\* the working list; more than Len(categories) if the chain does not end.
RECURSIVE WorkingDepth(_, _)
WorkingDepth(i, fuel) ==
    IF fuel = 0 THEN Len(categories) + 1
    ELSE IF categories[i].parent_category = NULL THEN 1
    ELSE LET hits == {j \in DOMAIN categories :
                         categories[j].id = categories[i].parent_category}
         IN  IF hits = {} THEN Len(categories) + 1
             ELSE 1 + WorkingDepth(CHOOSE j \in hits : TRUE, fuel - 1)

\* The same for row i of the stored table.
RECURSIVE StoredDepth(_, _)
StoredDepth(i, fuel) ==
    IF fuel = 0 THEN Len(db_product_categories) + 1
    ELSE IF db_product_categories[i].parent_category = NULL THEN 1
    ELSE IF ParentRow(i) = 0 THEN Len(db_product_categories) + 1
    ELSE 1 + StoredDepth(ParentRow(i), fuel - 1)

\* C9: the category forest has depth at most 3 (root, sub, sub-sub) and its
\* parent relation is acyclic - in the generated list, where parents are
\* working ids, and in the stored table, where they are real ids.
C9_ForestDepthAtMostThree ==
    /\ pc \in {"cat_root", "cat_sub", "cat_subsub", "cat_insert_roots"} =>
          \A i \in DOMAIN categories :
             /\ WorkingDepth(i, Len(categories)) <= 3
             /\ categories[i].parent_category # NULL =>
                   \E j \in 1 .. (i - 1) :
                      categories[j].id = categories[i].parent_category
    /\ \A i \in DOMAIN db_product_categories :
          /\ StoredDepth(i, Len(db_product_categories)) <= 3
          /\ db_product_categories[i].parent_category # NULL =>
                ParentRow(i) \in 1 .. (i - 1)

C9_Witness ==
    /\ pc = "cat_done"
    /\ remaining_categories = <<>>
    /\ \E i \in DOMAIN db_product_categories :
          StoredDepth(i, Len(db_product_categories)) = 3

\* The rows generated so far: buffered or stored.
RateRows == Range(exchange_rates) \cup Range(db_exchange_rates)

\* C10: every stored forward rate lies in [0.5 * base, 1.5 * base] and in
\* [0.000001, 100000], every stored reciprocal rate in [0.000001, 1000000],
\* for every pair, day and shock; and the rate the walk carries on is the
\* clamped one: it lies within the same bounds and is the value whose
\* rounding was stored last for the pair.
C10_RatesWithinBounds ==
    /\ \A r \in RateRows :
          IF r.forward
          THEN /\ 4 * r.rate >= base_rates[r.pair].rate
               /\ 4 * r.rate <= 3 * base_rates[r.pair].rate
               /\ r.rate >= 1
               /\ r.rate \div 1000000 < 100000 \/ r.rate = 100000 * 1000000
          ELSE /\ r.rate >= 1
               /\ r.rate \div 1000000 < 1000000 \/ r.rate = 1000000 * 1000000
    /\ \A p \in DOMAIN current_rates :
          /\ 2 * current_rates[p] >= base_rates[p].rate
          /\ 2 * current_rates[p] <= 3 * base_rates[p].rate
          /\ \A i \in DOMAIN exchange_rates :
                (/\ exchange_rates[i].pair = p
                 /\ exchange_rates[i].forward
                 /\ \A j \in DOMAIN exchange_rates :
                       (exchange_rates[j].pair = p /\ exchange_rates[j].forward)
                           => j <= i)
                    => exchange_rates[i].rate = Round6(current_rates[p])

\* A finished walk that hit the upper clamp of a pair on one day and the
\* lower clamp on another, and stored reciprocals for both.
C10_Witness ==
    /\ pc = "fx_done"
    /\ \E a, b \in Range(db_exchange_rates) :
          /\ a.forward /\ b.forward /\ a.pair = b.pair
          /\ 4 * a.rate = 3 * base_rates[a.pair].rate
          /\ 4 * b.rate = base_rates[b.pair].rate
          /\ \E ra, rb \in Range(db_exchange_rates) :
                /\ ~ra.forward /\ ra.pair = a.pair /\ ra.date = a.date
                /\ ~rb.forward /\ rb.pair = b.pair /\ rb.date = b.date
                /\ ra.rate < rb.rate

\* The inventory records generated so far: in the list or stored.
InventoryRows == Range(inventory_records) \cup Range(db_inventory)

\* C11: every inventory record has quantity_reserved <= quantity_on_hand / 3
\* and reorder_level < max_stock_level, for every base_stock in 10..500 and
\* every demand factor.
C11_InventoryBounds ==
    \A r \in InventoryRows :
        /\ 3 * r.quantity_reserved <= r.quantity_on_hand
        /\ r.reorder_level < r.max_stock_level

\* A stored record with the largest reservation and the largest reorder
\* level its base stock allows, for the smallest base stock.
C11_Witness ==
    /\ pc = "inv_done"
    /\ \E r \in Range(db_inventory) :
          /\ r.max_stock_level = 20
          /\ r.reorder_level = 6
          /\ r.quantity_on_hand = 20
          /\ r.quantity_reserved = 6

\* C12: a second run of populate_reference_data (and any later one) leaves
\* currencies, countries, tax_types, cost_types and roles with exactly the
\* rows the first run left, and no table holds two rows with one key.
C12_ReferenceDataIdempotent ==
    /\ ref_runs >= 2 => db_reference = ref_first
    /\ ref_runs >= 1 =>
          \A t \in ReferenceTables :
              /\ \A i, j \in DOMAIN db_reference[t] :
                    db_reference[t][i].key = db_reference[t][j].key => i = j
              /\ \A r \in Range(reference_data[t]) :
                    \E i \in DOMAIN db_reference[t] : db_reference[t][i].key = r.key

\* Two runs done, the first of which found the currencies table holding a
\* USD row of its own and added the missing rows to it.
C12_Witness ==
    /\ ref_runs = 2
    /\ db_reference.currencies[1] = [key |-> "USD", rest |-> "other"]
    /\ Len(db_reference.currencies) = MaxRefRows
    /\ Len(db_reference.roles) = MaxRefRows

\* The place of a stage in all_generators.
StageOrder(name) == CHOOSE i \in DOMAIN all_generators : all_generators[i] = name

\* C13: the stages that execute do so in the order currency, geographic,
\* tax, hr, products, suppliers, customers, sales, inventory, whatever the
\* order of the --only list; validation comes after all of them, and they
\* are the selected ones.
C13_StagesInFixedOrder ==
    /\ \A i, j \in DOMAIN executed :
          i < j => StageOrder(executed[i]) < StageOrder(executed[j])
    /\ (validated # "none" /\ result # "none") =>
          /\ executed = generators
          /\ Range(executed) = IF tables_to_generate = <<>>
                               THEN Range(all_generators)
                               ELSE Range(tables_to_generate)

\* A finished run of --only tax,currency: currency ran before tax.
C13_Witness ==
    /\ tables_to_generate = <<"tax", "currency">>
    /\ executed = <<"currency", "tax">>
    /\ validated # "none"
    /\ exit_code = 0

\* C14: when a stage function has returned, early returns included, no row
\* it wrote is left uncommitted for the next stage's transaction.
C14_ReturnedStageHasCommitted == pc = "run_next" => pending = {}

\* C15: the stages called form a prefix of the filtered order; a failed
\* connection calls none; after a stage raised it is not called again, no
\* later stage and no validation runs, what was committed stays, and the
\* run returns False.
C15_RaiseEndsTheRun ==
    /\ Len(executed) <= Len(generators)
    /\ executed = SubSeq(generators, 1, Len(executed))
    /\ (result = "false" /\ raised = "none") => executed = <<>>
    /\ raised # "none" =>
          /\ executed # <<>>
          /\ executed[Len(executed)] = raised
          /\ validated = "none"
          /\ result = "false"
          /\ committed = kept
          /\ pc \notin {"run_next", "run_stage"}

\* The customers stage raised after geographic and suppliers had run; the
\* territories of the geographic stage are still stored and main exited
\* with 1.
C15_Witness ==
    /\ raised = "customers"
    /\ executed = <<"currency", "geographic", "tax", "hr", "products",
                    "suppliers", "customers">>
    /\ <<"geographic", "territories">> \in committed
    /\ exit_code = 1

\* C16: when a stage raised, no row written by that stage is persisted.
C16_RaisingStageLeavesNoRows ==
    raised # "none" => \A r \in committed : r[1] # raised

\* C17: a stage whose upstream entities are missing from the cache returns
\* without raising.
C17_EmptyUpstreamNeverRaises == raise_cause # "empty_upstream"

\* C19: in a generation run validation does not change the outcome: the
\* run returns True whether it reported all-clear or issues, and the step
\* that validates leaves the store and the open transaction as they were.
C19_ValidationIsAdvisory ==
    /\ [](validated # "none" /\ result # "none" => result = "true")
    /\ [][validated' # validated =>
             (pending' = pending /\ committed' = committed)]_vars

\* A run all of whose stages succeeded, validation reported issues, and
\* main exited with 0.
C19_Witness ==
    /\ validated = "issues"
    /\ executed = all_generators
    /\ result = "true"
    /\ exit_code = 0

\* C20: main exits with 0 exactly when generation succeeded (or, with
\* --validate-only, validation passed), with 1 on every failure and on every
\* cancellation by the user, a keyboard interrupt or a declined prompt.
C20_ExitCodes ==
    exit_code # -1 =>
        /\ exit_code \in {0, 1}
        /\ exit_code = 0 =>
              \/ result = "true"
              \/ result = "none" /\ validated = "clear"
        /\ (result = "true" /\ cancelled = "none") => exit_code = 0
        /\ result = "false" => exit_code = 1
        /\ cancelled # "none" => exit_code = 1

\* The rows of a customer-address list that carry the given customer id,
\* without the id.
AddressesOf(rows, id) ==
    LET own == SelectSeq(rows, LAMBDA ca : ca.customer_id = id)
    IN  [i \in DOMAIN own |-> <<own[i].address_id, own[i].address_type,
                                 own[i].is_primary>>]

C22_OrderStatusAndDates ==
    \A o \in Range(orders) \cup Range(db_orders) :
       /\ IF today - o.order_date > 7
          THEN o.status \in {"COMPLETED", "SHIPPED", "CANCELLED"}
          ELSE o.status \in {"PENDING", "PROCESSING", "APPROVED"}
       /\ o.shipped_date # NULL <=> o.status \in {"COMPLETED", "SHIPPED"}
       /\ o.tracking_number # NULL <=> o.status \in {"COMPLETED", "SHIPPED"}

\* A shipped order next to an order placed exactly 7 days before today.
C22_Witness ==
    /\ pc = "sales_done"
    /\ \E o \in Range(db_orders) : o.status = "SHIPPED" /\ o.shipped_date > o.order_date
    /\ \E o \in Range(db_orders) : today - o.order_date = 7 /\ o.status = "PENDING"

\* The share of the hundred equal draws that keeps a candidate.
RetainedShare(multiplier) ==
    Cardinality({draw \in UniformDraws : ~Skips(draw, multiplier)})

\* C27: a candidate is kept exactly when the draw does not exceed its month's
\* multiplier, and the rate at which a month's candidates are kept is
\* proportional to the multiplier: the month of the candidate at hand keeps
\* orders at multiplier/1.0 times the rate of a month of multiplier 1.0.
C27_RetainedRateProportional ==
    pc = "sales_filter" =>
       /\ \A draw \in UniformDraws :
             ~Skips(draw, seasonal_multiplier) <=> draw <= 2 * seasonal_multiplier
       /\ 100 * RetainedShare(seasonal_multiplier)
             = seasonal_multiplier * RetainedShare(100)

\* The target years stored for an employee: 0 is the end-date year, 1 the
\* year after.
TargetYears(real_id) ==
    LET rows == SelectSeq(db_sales_targets, LAMBDA st : st.employee_id = real_id)
    IN  [i \in DOMAIN rows |-> rows[i].target_year]

\* C23: after the inventory stage every employee with a real id whose role
\* is Sales Manager or Sales Representative (the second and third role of
\* the roles table) has exactly two sales_targets rows, one for the end-date
\* year and one for the year after, and no other employee has any.
C23_SalesTargetsPerSalesEmployee ==
    pc = "inv_done" =>
       \A i \in DOMAIN employees :
          employees[i].real_id # NULL =>
             TargetYears(employees[i].real_id)
                = IF employees[i].role_id \in {2, 3} THEN <<0, 1>> ELSE <<>>

\* The stored line costs of a cost type that reference a detail row.
LineCostsOf(po_detail_id, cost_type) ==
    {i \in DOMAIN db_purchase_order_line_costs :
        /\ db_purchase_order_line_costs[i].po_detail_id = po_detail_id
        /\ db_purchase_order_line_costs[i].cost_type = cost_type}

\* C24: every purchase_order_details row inserted by the purchase-order stage
\* is referenced by exactly one TRANSPORT line cost and by at most one DUTIES
\* line cost, also when one product is drawn for several lines of a purchase
\* order.
C24_OneTransportCostPerDetail ==
    pc = "po_done" =>
       \A i \in DOMAIN db_purchase_order_details :
          LET id == db_purchase_order_details[i].real_id
          IN  /\ Cardinality(LineCostsOf(id, "TRANSPORT")) = 1
              /\ Cardinality(LineCostsOf(id, "DUTIES")) <= 1

\* C25: every employee other than the CEO, manager or staff, has a hire_date
\* strictly later than the CEO's - in the generated list and in the stored
\* table.
C25_HiredAfterCEO ==
    /\ \A i \in DOMAIN employees :
          i > 1 => employees[i].hire_date > employees[1].hire_date
    /\ \A i, j \in DOMAIN db_employees :
          db_employees[i].role = "ceo" /\ db_employees[j].role # "ceo"
             => db_employees[j].hire_date > db_employees[i].hire_date

\* The region of the territory the store gave the id to.
RegionOfTerritoryId(id) ==
    TerritoryRegion(territories[CHOOSE k \in TerritoryKeys : territories[k].id = id])

\* C26: while the staff are generated, a staff employee whose territory lies
\* in a region that has a regional manager reports to a manager whose
\* territory lies in that region, whatever ids the store gave the
\* territories.
C26_StaffManagerInHomeRegion ==
    pc = "hr_staff" =>
       \A i \in DOMAIN employees :
          LET emp == employees[i]
              home == RegionOfTerritoryId(emp.territory_id)
              regional == {j \in DOMAIN employees :
                              /\ employees[j].role = "manager"
                              /\ RegionOfTerritoryId(employees[j].territory_id) = home}
          IN  emp.role = "staff" /\ regional # {} =>
                 \E j \in regional : employees[j].id = emp.manager_id

\* The rows generated so far: all pairs of the days before current_date and
\* the pairs before pair_idx of current_date, each forward and reverse.
GeneratedRateKeys ==
    {<<p, f, d>> \in (DOMAIN base_rates) \X BOOLEAN \X (1 .. cfg_days) :
        d < current_date \/ (d = current_date /\ p < pair_idx)}

\* How often a row is in a list of rows.
RateCopies(rows, key) ==
    Cardinality({i \in DOMAIN rows :
                    <<rows[i].pair, rows[i].forward, rows[i].date>> = key})

\* C28: every generated rate row, forward and reverse, of every pair and
\* day, is handed to an insert once: while the walk runs it is either in the
\* buffer or in the table, never in both and never twice; the table changes
\* only at the end of a day on which the buffer has reached the threshold,
\* which empties the buffer, or at the final insert; after the final insert
\* every row is in the table once.
C28_EveryRateRowInsertedOnce ==
    /\ [](pc = "fx_walk" =>
            /\ \A key \in GeneratedRateKeys :
                  RateCopies(exchange_rates, key)
                     + RateCopies(db_exchange_rates, key) = 1
            /\ Len(exchange_rates) + Len(db_exchange_rates)
                  = Cardinality(GeneratedRateKeys))
    /\ [](pc = "fx_done" =>
            /\ \A key \in GeneratedRateKeys : RateCopies(db_exchange_rates, key) = 1
            /\ Len(db_exchange_rates) = 2 * Len(base_rates) * cfg_days)
    /\ [][db_exchange_rates' # db_exchange_rates =>
             \/ pc' = "fx_done"
             \/ /\ pair_idx > Len(base_rates)
                /\ Len(exchange_rates) >= flush_threshold
                /\ exchange_rates' = <<>>]_vars

\* A finished walk of three days whose table was filled by a flush at the
\* end of the second day and by the final insert.
C28_Witness ==
    /\ pc = "fx_done"
    /\ cfg_days = 3
    /\ Len(exchange_rates) = 2 * Len(base_rates)
    /\ Len(db_exchange_rates) = 6 * Len(base_rates)

\* C29: a stage that runs after the geographic stage leaves the key set of
\* the cache's territory map unchanged, and each territory is in the map
\* under one key only, whatever ids the store gave the territories.
C29_TerritoryKeysUnchanged ==
    /\ [][DOMAIN territories' = DOMAIN territories]_vars
    /\ [](\A j, k \in DOMAIN territories :
             territories[j].id = territories[k].id => j = k)

\* C30: the number of product categories generated, roots, sub- and
\* sub-sub-categories together, never exceeds config.product_categories - in
\* the generated list and in the stored table.
C30_CategoryBudget ==
    /\ Len(categories) <= cfg_product_categories
    /\ Len(db_product_categories) <= cfg_product_categories
====
